---- MODULE Spec2Model ----
(***************************************************************************)
(* Model of keyed_stats.py: the keyed aggregation engine (KeyedFile,       *)
(* StatList, main).                                                        *)
(*                                                                         *)
(* Text is modelled as sequences of one-character strings, so that the     *)
(* string operations of the source (split, replace, strptime, strftime,    *)
(* float) are computed and not assumed.  <<>> is the empty string ''.      *)
(* A statistic value (KeyedRecord.val) is a record                         *)
(*   [isnum |-> TRUE,  hi |-> h, n |-> k, s |-> <<>>]                      *)
(*        the float h * 2^53 + k, an integer                               *)
(*   [isnum |-> FALSE, hi |-> 0, n |-> 0, s |-> text]                      *)
(*        a str that float() refused                                       *)
(* Float arithmetic is IEEE double arithmetic: sums and quotients are      *)
(* rounded to nearest, ties to even.  nan and inf are not among the        *)
(* inputs.                                                                 *)
(***************************************************************************)
EXTENDS Integers, Sequences, FiniteSets, TLC

VARIABLES
    backoffs,     \* KeyedFile.backoffs: one lookup table per non-date key
    month_lag,    \* KeyedFile.month_lag
    month_group,  \* KeyedFile.month_group
    recs,         \* the KeyedRecords read_recs has yielded so far
    kr,           \* main's loop variable: the record being inserted
    keylists,     \* all_keysets' local: per-field candidate lists
    keysets,      \* the value all_keysets returned for kr
    d,            \* main's defaultdict(StatList): group key -> StatList
    pc,           \* main's position: "build", "stats", "crashed"
    sl,           \* a StatList instance driven through its interface
    ret,          \* what the last query on sl returned
    cores,        \* args.cores: the number of worker processes of the Pool
    chunks,       \* pool.map's task batches: each a list of group keys
    taken,        \* how many batches the workers have taken off the queue
    running,      \* the batches being computed, one per busy worker
    value,        \* the result list pool.map fills and returns
    stdout,       \* the lines printed so far
    fnames,       \* merge_tables' argument: the tables, each a list of lines
    fi,           \* its FileInput f: the table and the line read next
    hdr,          \* the header line it keeps
    schema,       \* the column lists and indices it derives from the header
    args,         \* main's args: the parsed command line, with the files
    kf,           \* main's KeyedFile: names, field, keys, dates
    status        \* the exit status of the process, "running" until it ends

vars == <<backoffs, month_lag, month_group, recs, kr, keylists, keysets, d,
          pc, sl, ret, cores, chunks, taken, running, value, stdout, fnames, fi,
          hdr, schema, args, kf, status>>

\* the state of the output stage of main
Output == <<cores, chunks, taken, running, value, stdout>>

\* the state of merge_tables
Merge == <<fnames, fi, hdr, schema>>

\* the command line, the KeyedFile made from it and the exit status
Process == <<args, kf, status>>

(***************************************************************************)
(* Bounds of the model.                                                    *)
(***************************************************************************)
MaxRecs == 2
MaxWidth == 1
MaxLen == 4
MaxLong == 50

(***************************************************************************)
(* Text helpers.                                                           *)
(***************************************************************************)
Digits == <<"0", "1", "2", "3", "4", "5", "6", "7", "8", "9">>

IsDigit(c) == \E i \in 1..10 : Digits[i] = c

DigitVal(c) == (CHOOSE i \in 1..10 : Digits[i] = c) - 1

\* the characters of the inputs, in ascending code-point order
CharOrder == <<"\t", " ", "-", "0", "1", "2", "3", "4", "5", "6", "7", "8", "9",
               "S", "T", "a", "b", "x">>

CharRank(c) == CHOOSE i \in 1..Len(CharOrder) : CharOrder[i] = c

\* str < str: lexicographic by code point
RECURSIVE StrLt(_, _)
StrLt(a, b) ==
    IF b = <<>> THEN FALSE
    ELSE IF a = <<>> THEN TRUE
    ELSE IF Head(a) # Head(b) THEN CharRank(Head(a)) < CharRank(Head(b))
    ELSE StrLt(Tail(a), Tail(b))

\* s.replace(c, '')
RECURSIVE StrRemove(_, _)
StrRemove(s, c) ==
    IF s = <<>> THEN <<>>
    ELSE IF Head(s) = c THEN StrRemove(Tail(s), c)
    ELSE <<Head(s)>> \o StrRemove(Tail(s), c)

\* s.split(c): the list of the pieces of s between occurrences of c
RECURSIVE StrSplit(_, _)
StrSplit(s, c) ==
    IF s = <<>> THEN << <<>> >>
    ELSE LET rest == StrSplit(Tail(s), c)
         IN  IF Head(s) = c THEN << <<>> >> \o rest
             ELSE << <<Head(s)>> \o Head(rest) >> \o Tail(rest)

\* the decimal value of a string of digits
RECURSIVE DecVal(_)
DecVal(s) ==
    IF s = <<>> THEN 0
    ELSE DecVal(SubSeq(s, 1, Len(s) - 1)) * 10 + DigitVal(s[Len(s)])

AllDigits(s) == \A i \in 1..Len(s) : IsDigit(s[i])

\* n written with exactly w digits, zero padded
RECURSIVE ZeroPad(_, _)
ZeroPad(n, w) ==
    IF w = 0 THEN <<>>
    ELSE ZeroPad(n \div 10, w - 1) \o <<Digits[(n % 10) + 1]>>

(***************************************************************************)
(* Statistic values.                                                       *)
(***************************************************************************)
\* A statistic value is a Python float or a string.  The float is an
\* integer hi * 2^53 + n with n small: the small integers themselves
\* (hi = 0), and integers next to 2^53 and above, where doubles are more
\* than one apart and sums are rounded.
NumVal(k) == [isnum |-> TRUE, hi |-> 0, n |-> k, s |-> <<>>]

StrVal(t) == [isnum |-> FALSE, hi |-> 0, n |-> 0, s |-> t]

\* the float 18014398509481980.0 = 2^54 - 4
Large == [isnum |-> TRUE, hi |-> 2, n |-> -4, s |-> <<>>]

\* float(val) of read_recs: a string of digits is converted, anything else
\* raises ValueError and stays the string it was
ParseVal(raw) ==
    IF raw # <<>> /\ AllDigits(raw) THEN NumVal(DecVal(raw)) ELSE StrVal(raw)

\* a < b on values, as Python 2 orders them: every number sorts before
\* every string, numbers by value, strings by code point
ValLt(a, b) ==
    IF a.isnum /\ b.isnum THEN a.hi < b.hi \/ (a.hi = b.hi /\ a.n < b.n)
    ELSE IF a.isnum THEN TRUE
    ELSE IF b.isnum THEN FALSE
    ELSE StrLt(a.s, b.s)

(***************************************************************************)
(* Dates: datetime values with day 1, as strptime(..., "%Y%m") makes them. *)
(***************************************************************************)
\* datetime.strptime(s, "%Y%m"): four digits of year, then a month matched
\* by 1[0-2]|0[1-9]|[1-9]; anything left over is a ValueError
StrptimeYm(s) ==
    LET bad == [ok |-> FALSE, y |-> 0, m |-> 0]
    IN  IF Len(s) < 5 \/ ~AllDigits(SubSeq(s, 1, 4)) THEN bad
        ELSE LET y == DecVal(SubSeq(s, 1, 4))
                 r == SubSeq(s, 5, Len(s))
                 two == Len(r) >= 2
                        /\ \/ r[1] = "1" /\ r[2] \in {"0", "1", "2"}
                           \/ r[1] = "0" /\ IsDigit(r[2]) /\ r[2] # "0"
                 one == IsDigit(r[1]) /\ r[1] # "0"
                 used == IF two THEN 2 ELSE IF one THEN 1 ELSE 0
             IN  IF used = 0 \/ used # Len(r) THEN bad
                 ELSE [ok |-> TRUE, y |-> y, m |-> DecVal(SubSeq(r, 1, used))]

\* dt + relativedelta(months=k) on a first-of-month datetime
AddMonths(dt, k) ==
    LET t == dt.y * 12 + (dt.m - 1) + k
    IN  [y |-> t \div 12, m |-> (t % 12) + 1]

\* dt.strftime('%Y%m')
StrftimeYm(dt) == ZeroPad(dt.y, 4) \o ZeroPad(dt.m, 2)

(***************************************************************************)
(* StatList: the accumulator of one group.  krs holds, for each added      *)
(* KeyedRecord, its val (the only attribute the statistics read).          *)
(***************************************************************************)
\* StatList.__init__
StatListNew == [krs |-> <<>>, is_sorted |-> TRUE]

add_replace(s, val) == [krs |-> <<val>>, is_sorted |-> FALSE]

add_keeps_flag(s, val) == [krs |-> Append(s.krs, val), is_sorted |-> s.is_sorted]

\* StatList.add
add(s, val) == [krs |-> Append(s.krs, val), is_sorted |-> FALSE]

\* StatList.get_count
get_count(s) == Len(s.krs)

\* Floats the statistics return.  A finite one is (hi * 2^56 + n) / d in
\* lowest terms; inf and -inf are the sentinels of get_min and get_max.
PosInf == [kind |-> "inf", hi |-> 0, n |-> 0, d |-> 1]
NegInf == [kind |-> "-inf", hi |-> 0, n |-> 0, d |-> 1]
NaN == [kind |-> "nan", hi |-> 0, n |-> 0, d |-> 1]

Abs(a) == IF a < 0 THEN -a ELSE a

RECURSIVE Gcd(_, _)
Gcd(a, b) == IF b = 0 THEN a ELSE Gcd(b, a % b)

Fin(hi, n, den) ==
    LET g == Gcd(Gcd(hi, Abs(n)), den)
    IN  [kind |-> "fin", hi |-> hi \div g, n |-> n \div g, d |-> den \div g]

\* the float a numeric value is
ToFloat(v) == Fin(v.hi, 8 * v.n, 8)

\* a < b on floats that are finite or a sentinel
FloatLt(a, b) ==
    IF a.kind = "inf" \/ b.kind = "-inf" THEN FALSE
    ELSE IF a.kind = "-inf" \/ b.kind = "inf" THEN TRUE
    ELSE \/ a.hi * b.d < b.hi * a.d
         \/ a.hi * b.d = b.hi * a.d /\ a.n * b.d < b.n * a.d

\* 2^e mod m
RECURSIVE Pow2Mod(_, _)
Pow2Mod(e, m) == IF e = 0 THEN 1 % m ELSE (2 * Pow2Mod(e - 1, m)) % m

\* 2^j for the largest j with 2^(j + 49) <= (hi * 2^53 + n) / c
RECURSIVE Spacing8(_, _, _, _)
Spacing8(hi, n, c, p) ==
    IF 16 * hi > 2 * c * p \/ (16 * hi = 2 * c * p /\ n >= 0)
    THEN Spacing8(hi, n, c, 2 * p)
    ELSE p

\* (hi * 2^53 + n) / c in IEEE double arithmetic, round to nearest, ties
\* to even, for hi >= 0 and a small n.  With hi = 0 the quotient of two
\* small integers is kept as the fraction it rounds, which tells such
\* quotients apart and orders them as their doubles are.  With hi >= 1
\* the quotient lies in [2^(j+49), 2^(j+50)), where doubles are 2^(j-3)
\* apart: 8 * (hi * 2^53 + n) is divided by m = c * 2^j, the remainder r
\* decides the direction and the parity of the quotient decides a tie.
FloatDiv(hi, n, c) ==
    IF hi = 0 THEN Fin(0, n, c)
    ELSE LET m == c * Spacing8(hi, n, c, 1)
             r == (hi * Pow2Mod(56, m) + 8 * n) % m
             odd == (hi * Pow2Mod(56, 2 * m) + 8 * n - r) % (2 * m) = m
             up == 2 * r > m \/ (2 * r = m /\ odd)
         IN  Fin(hi, 8 * n - r + (IF up THEN m ELSE 0), 8 * c)

\* tot + v for the running sum tot = <<hi, n>> and a numeric value v: the
\* exact sum rounded to a double, which is again an integer
FloatAdd(tot, v) ==
    LET q == FloatDiv(tot[1] + v.hi, tot[2] + v.n, 1)
    IN  IF tot[1] + v.hi = 0 THEN <<0, tot[2] + v.n>>
        ELSE <<q.hi * (8 \div q.d), q.n \div q.d>>

\* min(res, v) and max(res, v) for floats
FloatMin(res, v) == IF FloatLt(v, res) THEN v ELSE res

FloatMax(res, v) == IF FloatLt(res, v) THEN v ELSE res

\* the loop of get_min over krs[i..]
RECURSIVE MinFrom(_, _, _)
MinFrom(krs, i, res) ==
    IF i > Len(krs) THEN res
    ELSE MinFrom(krs, i + 1,
                 IF krs[i].isnum THEN FloatMin(res, ToFloat(krs[i])) ELSE res)

\* StatList.get_min
get_min(s) ==
    LET res == MinFrom(s.krs, 1, PosInf)
    IN  IF res = PosInf THEN NaN ELSE res

\* the loop of get_max over krs[i..]
RECURSIVE MaxFrom(_, _, _)
MaxFrom(krs, i, res) ==
    IF i > Len(krs) THEN res
    ELSE MaxFrom(krs, i + 1,
                 IF krs[i].isnum THEN FloatMax(res, ToFloat(krs[i])) ELSE res)

\* StatList.get_max
get_max(s) ==
    LET res == MaxFrom(s.krs, 1, NegInf)
    IN  IF res = NegInf THEN NaN ELSE res

\* the loop of get_mean over krs[i..]: <<tot, count>>
RECURSIVE MeanFrom(_, _, _, _)
MeanFrom(krs, i, tot, count) ==
    IF i > Len(krs) THEN <<tot, count>>
    ELSE IF krs[i].isnum
         THEN MeanFrom(krs, i + 1, FloatAdd(tot, krs[i]), count + 1)
         ELSE MeanFrom(krs, i + 1, tot, count)

\* StatList.get_mean
get_mean(s) ==
    LET tc == MeanFrom(s.krs, 1, <<0, 0>>, 0)
    IN  IF tc[2] > 0 THEN FloatDiv(tc[1][1], tc[1][2], tc[2]) ELSE NaN

\* one step of a stable insertion: v goes before the first element that
\* is greater than it
RECURSIVE InsertSorted(_, _)
InsertSorted(v, seq) ==
    IF seq = <<>> THEN <<v>>
    ELSE IF ValLt(v, Head(seq)) THEN <<v>> \o seq
    ELSE <<Head(seq)>> \o InsertSorted(v, Tail(seq))

RECURSIVE SortFrom(_, _, _)
SortFrom(krs, i, acc) ==
    IF i > Len(krs) THEN acc
    ELSE SortFrom(krs, i + 1, InsertSorted(krs[i], acc))

\* krs.sort(key=lambda kr: kr.val): a stable ascending sort
sort(krs) == SortFrom(krs, 1, <<>>)

\* "if not self.is_sorted: sort; is_sorted = True"
sorted(s) ==
    IF s.is_sorted THEN s ELSE [krs |-> sort(s.krs), is_sorted |-> TRUE]

\* Python's None, as the val no record has
PyNone == [isnum |-> FALSE, hi |-> 0, n |-> -1, s |-> <<>>]

\* the loop of get_mode over krs[i..]
RECURSIVE ModeFrom(_, _, _, _, _, _)
ModeFrom(krs, i, val, count, max_val, max_count) ==
    IF i > Len(krs)
    THEN IF count > max_count THEN <<val, count>> ELSE <<max_val, max_count>>
    ELSE IF krs[i] # val
         THEN IF count > max_count
              THEN ModeFrom(krs, i + 1, krs[i], 1, val, count)
              ELSE ModeFrom(krs, i + 1, krs[i], 1, max_val, max_count)
         ELSE ModeFrom(krs, i + 1, val, count + 1, max_val, max_count)

RECURSIVE ModeFromLast(_, _, _, _, _, _)
ModeFromLast(krs, i, val, count, max_val, max_count) ==
    IF i > Len(krs)
    THEN IF count >= max_count THEN <<val, count>> ELSE <<max_val, max_count>>
    ELSE IF krs[i] # val
         THEN IF count >= max_count
              THEN ModeFromLast(krs, i + 1, krs[i], 1, val, count)
              ELSE ModeFromLast(krs, i + 1, krs[i], 1, max_val, max_count)
         ELSE ModeFromLast(krs, i + 1, val, count + 1, max_val, max_count)

get_mode_last(s) ==
    [sl |-> sorted(s), ret |-> ModeFromLast(sorted(s).krs, 1, PyNone, 0, PyNone, -1)]

\* StatList.get_mode: the list after the call, and (max_val, max_count)
get_mode(s) ==
    [sl |-> sorted(s), ret |-> ModeFrom(sorted(s).krs, 1, PyNone, 0, PyNone, -1)]

\* floor(log2(k)) for k >= 1
RECURSIVE Log2(_)
Log2(k) == IF k < 2 THEN 0 ELSE 1 + Log2(k \div 2)

RECURSIVE Pow2(_)
Pow2(e) == IF e = 0 THEN 1 ELSE 2 * Pow2(e - 1)

\* int(float(p) / 100 * n) in IEEE double arithmetic, for p in 1..99 and
\* an index rounded up instead of cut off
PercentileIndex_ceil(p, n) == ((p * n) + 99) \div 100

\* n >= 0.  The double nearest p/100 is M / 2^t with
\* t = 52 - floor(log2(p/100)) and M = round(p * 2^t / 100); with
\* r = (p * 2^t) mod 100 it lies r / (100 * 2^t) below p/100 when r < 50
\* and (100 - r) / (100 * 2^t) above it otherwise.  The product with n
\* is rounded to the nearest double.  When p*n/100 is no integer the
\* product is further than 1/100 from one and truncates to floor(p*n/100).
\* When p*n/100 is the integer k, the product truncates to k unless it
\* lies more than half a spacing below k, the spacing of doubles below k
\* being 2^(e-52) with 2^e < k <= 2^(e+1): then it rounds below k and
\* truncates to k - 1.
PercentileIndex(p, n) ==
    LET k == (p * n) \div 100
        u == Log2(100 \div p) + (IF Pow2(Log2(100 \div p)) * p = 100 THEN 0 ELSE 1)
        r == (p * Pow2Mod(52 + u, 100)) % 100
        e == IF Pow2(Log2(k)) = k THEN Log2(k) - 1 ELSE Log2(k)
    IN  IF (p * n) % 100 # 0 \/ n = 0 THEN k
        ELSE IF r < 50 /\ 2 * r * n > 100 * Pow2(e + u) THEN k - 1
        ELSE k

\* the loop "while idx < num_recs and krs[idx].val in [None, '']"
RECURSIVE SkipBlank(_, _)
SkipBlank(krs, idx) ==
    IF idx < Len(krs) /\ krs[idx + 1] \in {PyNone, StrVal(<<>>)}
    THEN SkipBlank(krs, idx + 1)
    ELSE idx

\* the 0-based indices get_percentiles computes on a sorted list
percentile_idcs(krs, percentiles, only_numeric) ==
    LET num_recs == Len(krs)
        skipped == SkipBlank(krs, 0)
        idx == IF skipped = num_recs THEN 0 ELSE skipped
    IN  IF only_numeric
        THEN [i \in 1..Len(percentiles) |->
                 idx + PercentileIndex(percentiles[i], num_recs - idx)]
        ELSE [i \in 1..Len(percentiles) |->
                 PercentileIndex(percentiles[i], num_recs)]

\* StatList.get_percentiles: the list after the call, and the values
\* returned, or the IndexError an index past the end raises
get_percentiles(s, percentiles, only_numeric) ==
    LET krs == sorted(s).krs
        idcs == percentile_idcs(krs, percentiles, only_numeric)
    IN  [sl |-> sorted(s),
         ret |-> IF \A i \in 1..Len(idcs) : idcs[i] < Len(krs)
                 THEN [err |-> FALSE,
                       vals |-> [i \in 1..Len(idcs) |-> krs[idcs[i] + 1]]]
                 ELSE [err |-> TRUE, vals |-> <<>>]]

(***************************************************************************)
(* KeyedFile.                                                              *)
(***************************************************************************)
\* the loop body of read_backoffs for one file: every line "key<TAB>vals"
\* with non-empty vals sets h[key] = vals.split(' ')
RECURSIVE ReadBackoffLines(_, _)
ReadBackoffLines(lines, h) ==
    IF lines = <<>> THEN h
    ELSE LET cols == StrSplit(Head(lines), "\t")
             key == cols[1]
             backvals == cols[2]
             h2 == IF Len(backvals) > 0
                   THEN [k \in DOMAIN h \cup {key} |->
                            IF k = key THEN StrSplit(backvals, " ") ELSE h[k]]
                   ELSE h
         IN  ReadBackoffLines(Tail(lines), h2)

EmptyTable == [k \in {} |-> <<>>]

\* KeyedFile.read_backoffs: one table per argument, empty for None
read_backoffs(bfs) ==
    [i \in 1..Len(bfs) |->
        IF bfs[i].given THEN ReadBackoffLines(bfs[i].lines, EmptyTable)
        ELSE EmptyTable]

\* the columns KeyedFile.__init__ resolved (self.keys, self.field,
\* self.dates) for a four-column input: two keys, the value, one date
KeyCols == <<1, 2>>
FieldCol == 3
DateCols == <<4>>

\* one iteration of read_recs: the KeyedRecord of a line, or the ValueError
\* strptime raises on its date
read_rec(line) ==
    LET ln == StrSplit(line, "\t")
        val == ParseVal(ln[FieldCol])
        dts == [i \in 1..Len(DateCols) |->
                   StrptimeYm(StrRemove(StrRemove(ln[DateCols[i]], "-"), " "))]
    IN  [ok |-> \A i \in 1..Len(dts) : dts[i].ok,
         keys |-> [i \in 1..Len(KeyCols) |-> ln[KeyCols[i]]],
         val |-> val,
         dates |-> [i \in 1..Len(dts) |-> [y |-> dts[i].y, m |-> dts[i].m]]]

\* xrange(0, -month_group - 1, -1) mapped through dt + relativedelta
valid_months(dt, lag, group) ==
    LET lagdt == AddMonths(dt, lag)
    IN  << <<>> >> \o [i \in 1..(group + 1) |-> StrftimeYm(AddMonths(dt, 1 - i))]

\* itertools.product(*lists): all tuples, the last list varying fastest
RECURSIVE product_row(_, _)
product_row(xs, rest) ==
    IF xs = <<>> THEN <<>>
    ELSE [j \in 1..Len(rest) |-> <<Head(xs)>> \o rest[j]]
         \o product_row(Tail(xs), rest)

RECURSIVE product(_)
product(lists) ==
    IF lists = <<>> THEN << <<>> >>
    ELSE product_row(Head(lists), product(Tail(lists)))

key_candidates_first_table(rec, idx, tables) ==
    LET k == rec.keys[idx]
        val1 == IF k # <<>> THEN <<k, <<>> >> ELSE <<k>>
    IN  IF k \in DOMAIN tables[1] THEN val1 \o tables[1][k] ELSE val1

key_candidates_always_wild(rec, idx, tables) ==
    LET k == rec.keys[idx]
        val1 == <<k, <<>> >>
    IN  IF k \in DOMAIN tables[idx] THEN val1 \o tables[idx][k] ELSE val1

key_candidates_no_wild(rec, idx, tables) ==
    LET k == rec.keys[idx]
        val1 == <<k>>
    IN  IF k \in DOMAIN tables[idx] THEN val1 \o tables[idx][k] ELSE val1

\* the candidate list all_keysets builds for non-date key idx
key_candidates(rec, idx, tables) ==
    LET k == rec.keys[idx]
        val1 == IF k # <<>> THEN <<k, <<>> >> ELSE <<k>>
    IN  IF k \in DOMAIN tables[idx] THEN val1 \o tables[idx][k] ELSE val1

\* the keylists of all_keysets after the date lists were appended
all_keylists(rec, tables, lag, group) ==
    [i \in 1..Len(rec.keys) |-> key_candidates(rec, i, tables)]
    \o [i \in 1..Len(rec.dates) |-> valid_months(rec.dates[i], lag, group)]

\* KeyedFile.all_keysets
all_keysets(rec, tables, lag, group) ==
    product(all_keylists(rec, tables, lag, group))

(***************************************************************************)
(* main: the build pass.                                                   *)
(***************************************************************************)
\* for ks in kf.all_keysets(kr): d[ks].add(kr), from the i-th key set on;
\* d is a defaultdict(StatList), which creates the group it is asked for
RECURSIVE InsertFrom(_, _, _, _)
InsertFrom(tab, kss, i, val) ==
    IF i > Len(kss) THEN tab
    ELSE IF kss[i] \in DOMAIN tab
         THEN InsertFrom([tab EXCEPT ![kss[i]] = add(@, val)], kss, i + 1, val)
         ELSE InsertFrom([k \in DOMAIN tab \cup {kss[i]} |->
                             IF k = kss[i] THEN add(StatListNew, val)
                             ELSE tab[k]],
                         kss, i + 1, val)

InsertAll(tab, kss, val) == InsertFrom(tab, kss, 1, val)

(***************************************************************************)
(* Inputs.                                                                 *)
(***************************************************************************)
NoFile == [given |-> FALSE, lines |-> <<>>]

File(lines) == [given |-> TRUE, lines |-> lines]

\* backoff files: "a<TAB>S T" / "b<TAB>S";  "a<TAB>a  S" (the alternates
\* 'a', '' and 'S');  "b<TAB>" (no alternates) / "a<TAB>T"
RollupFile == File(<< <<"a", "\t", "S", " ", "T">>, <<"b", "\t", "S">> >>)
OverlapFile == File(<< <<"a", "\t", "a", " ", " ", "S">> >>)
SparseFile == File(<< <<"b", "\t">>, <<"a", "\t", "T">> >>)

BackoffArgs == {<<NoFile, NoFile>>, <<RollupFile, NoFile>>,
                <<OverlapFile, SparseFile>>}

Key1Vals == {<<>>, <<"a">>, <<"b">>}
Key2Vals == {<<"a">>, <<"b">>}

\* the value and date columns: "1<TAB>201301" and "x<TAB>2013-08"
ValueAndDate == {<<"1", "\t", "2", "0", "1", "3", "0", "1">>,
                 <<"x", "\t", "2", "0", "1", "3", "-", "0", "8">>}

Lines == {k1 \o <<"\t">> \o k2 \o <<"\t">> \o vd :
             k1 \in Key1Vals, k2 \in Key2Vals, vd \in ValueAndDate}

\* the values of the -l option tried
Lags == {0, 2}

NoRec == [ok |-> FALSE, keys |-> <<>>, val |-> StrVal(<<>>), dates |-> <<>>]

(***************************************************************************)
(* The aggregation run: KeyedFile construction, then main's loop.          *)
(***************************************************************************)
\* nothing printed, no Pool created, merge_tables not called
NoOutput ==
    /\ cores = 1
    /\ chunks = <<>>
    /\ taken = 0
    /\ running = {}
    /\ value = <<>>
    /\ stdout = <<>>
    /\ fnames = <<>>
    /\ fi = [file |-> 1, line |-> 1]
    /\ hdr = <<>>
    /\ schema = <<>>
    /\ args = <<>>
    /\ kf = <<>>
    /\ status = "running"

Init ==
    /\ \E bfs \in BackoffArgs : backoffs = read_backoffs(bfs)
    /\ month_lag \in Lags
    /\ month_group \in 0..MaxWidth
    /\ recs = <<>>
    /\ kr = NoRec
    /\ keylists = <<>>
    /\ keysets = <<>>
    /\ d = [k \in {} |-> StatListNew]
    /\ pc = "build"
    /\ sl = StatListNew
    /\ ret = [op |-> "none"]
    /\ NoOutput

\* one iteration of "for kr in kf.read_recs()", with its inner loop
ReadRec(line) ==
    /\ pc = "build"
    /\ Len(recs) < MaxRecs
    /\ LET rec == read_rec(line)
       IN  IF rec.ok
           THEN /\ kr' = rec
                /\ recs' = Append(recs, rec)
                /\ keylists' = all_keylists(rec, backoffs, month_lag, month_group)
                /\ keysets' = all_keysets(rec, backoffs, month_lag, month_group)
                /\ d' = InsertAll(d, keysets', rec.val)
                /\ pc' = pc
           ELSE /\ pc' = "crashed"
                /\ UNCHANGED <<kr, recs, keylists, keysets, d>>
    /\ UNCHANGED <<backoffs, month_lag, month_group, sl, ret, Output, Merge,
                   Process>>

\* read_recs is exhausted: the loop ends
EndOfInput ==
    /\ pc = "build"
    /\ pc' = "stats"
    /\ UNCHANGED <<backoffs, month_lag, month_group, recs, kr, keylists,
                   keysets, d, sl, ret, Output, Merge, Process>>

Next ==
    \/ \E line \in Lines : ReadRec(line)
    \/ EndOfInput

Spec == Init /\ [][Next]_vars

(***************************************************************************)
(* A single StatList driven through its interface: values are added in    *)
(* any order and the statistics are asked for at any moment, as           *)
(* calc_stats asks for them.                                               *)
(***************************************************************************)

Vals == {NumVal(1), NumVal(2), Large, StrVal(<<>>), StrVal(<<"x">>)}

\* the -p lists the percentiles are asked with
PercentileArgs == {<<50>>, <<25, 75>>, <<1, 58, 99>>}

InitStatList ==
    /\ backoffs = read_backoffs(<<NoFile, NoFile>>)
    /\ month_lag = 0
    /\ month_group = 0
    /\ recs = <<>>
    /\ kr = NoRec
    /\ keylists = <<>>
    /\ keysets = <<>>
    /\ d = [k \in {} |-> StatListNew]
    /\ pc = "statlist"
    /\ sl = StatListNew
    /\ ret = [op |-> "none"]
    /\ NoOutput

Aggregation == <<backoffs, month_lag, month_group, recs, kr, keylists,
                 keysets, d, pc, Output, Merge, Process>>

Add(val) ==
    /\ Len(sl.krs) < MaxLen
    /\ sl' = add(sl, val)
    /\ ret' = [op |-> "none"]
    /\ UNCHANGED Aggregation

\* the long list: the values MaxLong, MaxLong - 1, ... in this order
AddLong ==
    /\ Len(sl.krs) < MaxLong
    /\ sl' = add(sl, NumVal(MaxLong - Len(sl.krs)))
    /\ ret' = [op |-> "none"]
    /\ UNCHANGED Aggregation

GetCount ==
    /\ ret' = [op |-> "count", val |-> get_count(sl)]
    /\ UNCHANGED <<sl, Aggregation>>

GetMin ==
    /\ ret' = [op |-> "min", val |-> get_min(sl)]
    /\ UNCHANGED <<sl, Aggregation>>

GetMax ==
    /\ ret' = [op |-> "max", val |-> get_max(sl)]
    /\ UNCHANGED <<sl, Aggregation>>

GetMean ==
    /\ ret' = [op |-> "mean", val |-> get_mean(sl)]
    /\ UNCHANGED <<sl, Aggregation>>

GetMode ==
    /\ LET res == get_mode(sl)
       IN  /\ sl' = res.sl
           /\ ret' = [op |-> "mode", val |-> res.ret[1], count |-> res.ret[2]]
    /\ UNCHANGED Aggregation

GetPercentiles(percentiles, only_numeric) ==
    /\ LET res == get_percentiles(sl, percentiles, only_numeric)
       IN  /\ sl' = res.sl
           /\ ret' = [op |-> "percentiles", percentiles |-> percentiles,
                      only_numeric |-> only_numeric,
                      err |-> res.ret.err, vals |-> res.ret.vals]
    /\ UNCHANGED Aggregation

NextStatList ==
    \/ \E val \in Vals : Add(val)
    \/ GetCount
    \/ GetMin
    \/ GetMax
    \/ GetMean
    \/ GetMode
    \/ \E ps \in PercentileArgs, on \in BOOLEAN : GetPercentiles(ps, on)

SpecStatList == InitStatList /\ [][NextStatList]_vars

NextLong ==
    \/ AddLong
    \/ GetMode
    \/ \E ps \in PercentileArgs, on \in BOOLEAN : GetPercentiles(ps, on)

SpecLong == InitStatList /\ [][NextLong]_vars

(***************************************************************************)
(* main: the output stage.  The header is printed, a Pool of args.cores    *)
(* workers is created and pool.map computes one line per group.  map       *)
(* cuts its task list into batches, the workers take the batches off the   *)
(* queue in order, one at a time each, and finish them in any order.       *)
(***************************************************************************)
MaxCores == 2

\* Python 2's order on tuples of str: the first differing element decides
RECURSIVE TupleLt(_, _)
TupleLt(a, b) ==
    IF a = <<>> \/ b = <<>> THEN a = <<>> /\ b # <<>>
    ELSE IF Head(a) = Head(b) THEN TupleLt(Tail(a), Tail(b))
    ELSE StrLt(Head(a), Head(b))

RECURSIVE SortedFrom(_)
SortedFrom(S) ==
    IF S = {} THEN <<>>
    ELSE LET m == CHOOSE x \in S : \A y \in S \ {x} : TupleLt(x, y)
         IN  <<m>> \o SortedFrom(S \ {m})

\* sorted(d.iterkeys())
sorted_keys(tab) == SortedFrom(DOMAIN tab)

\* the -p list and the -n flag of the run
ArgsPercentile == <<50>>
ArgsNumPercentile == FALSE

\* calc_stats with every statistic switched on: the cells of one line, in
\* the order they are computed (get_mode sorts the list the percentiles
\* are then read from)
calc_stats(s, k) ==
    LET mode == get_mode(s)
        pcts == get_percentiles(mode.sl, ArgsPercentile, ArgsNumPercentile)
    IN  [line |-> "row", key |-> k, count |-> get_count(s),
         min |-> get_min(s), max |-> get_max(s), mean |-> get_mean(s),
         mode |-> mode.ret[1], percentiles |-> pcts.ret.vals]

\* print out_hdr
HeaderLine == [line |-> "header"]

\* what print writes for the empty string
BlankLine == [line |-> "blank"]

\* a slot of the result list that no batch has filled yet
NoLine == [line |-> "none"]

\* map_async's batch size: divmod(len(iterable), len(pool) * 4), rounded up
Chunksize(n, procs) ==
    IF n = 0 THEN 0
    ELSE (n \div (procs * 4)) + (IF n % (procs * 4) # 0 THEN 1 ELSE 0)

\* Pool._get_tasks: consecutive slices of the sorted key list
get_tasks(keys, size) ==
    IF size = 0 THEN <<>>
    ELSE [i \in 1..((Len(keys) + size - 1) \div size) |->
             SubSeq(keys, (i - 1) * size + 1,
                    IF i * size < Len(keys) THEN i * size ELSE Len(keys))]

\* a result list filled in the order the batches finish
set_value_on_arrival(val, i, size, rows) ==
    LET first == Cardinality({j \in 1..Len(val) : val[j] # NoLine})
    IN  [j \in 1..Len(val) |->
            IF first < j /\ j <= first + Len(rows)
            THEN rows[j - first] ELSE val[j]]

\* MapResult._set: batch i fills the slots [i*size, (i+1)*size) of the list
set_value(val, i, size, rows) ==
    [j \in 1..Len(val) |->
        IF (i - 1) * size < j /\ j <= (i - 1) * size + Len(rows)
        THEN rows[j - (i - 1) * size] ELSE val[j]]

\* "\n".join(lines) printed: the lines, or one empty line when there is none
joined(rows) == IF rows = <<>> THEN <<BlankLine>> ELSE rows

\* main's loop over the records of a whole input
RECURSIVE BuildFrom(_, _, _, _)
BuildFrom(tab, rs, i, tables) ==
    IF i > Len(rs) THEN tab
    ELSE BuildFrom(InsertAll(tab, all_keysets(rs[i], tables, 0, 0), rs[i].val),
                   rs, i + 1, tables)

\* the inputs of the output stage: no record, one record, two records
PoolInputs ==
    {<<>>} \cup {<<l>> : l \in Lines} \cup {<<l, m>> : l \in Lines, m \in Lines}

Build == <<backoffs, month_lag, month_group, recs, kr, keylists, keysets, d,
           sl, ret, Merge>>

\* main after its loop has read the whole input
InitPool ==
    /\ \E bfs \in BackoffArgs : backoffs = read_backoffs(bfs)
    /\ month_lag = 0
    /\ month_group = 0
    /\ \E input \in PoolInputs :
          /\ \A i \in 1..Len(input) : read_rec(input[i]).ok
          /\ recs = [i \in 1..Len(input) |-> read_rec(input[i])]
    /\ kr = IF recs = <<>> THEN NoRec ELSE recs[Len(recs)]
    /\ keylists = IF recs = <<>> THEN <<>>
                  ELSE all_keylists(kr, backoffs, 0, 0)
    /\ keysets = IF recs = <<>> THEN <<>> ELSE all_keysets(kr, backoffs, 0, 0)
    /\ d = BuildFrom([k \in {} |-> StatListNew], recs, 1, backoffs)
    /\ pc = "stats"
    /\ sl = StatListNew
    /\ ret = [op |-> "none"]
    /\ cores \in 1..MaxCores
    /\ chunks = <<>>
    /\ taken = 0
    /\ running = {}
    /\ value = <<>>
    /\ stdout = <<>>
    /\ fnames = <<>>
    /\ fi = [file |-> 1, line |-> 1]
    /\ hdr = <<>>
    /\ schema = <<>>
    /\ args = <<>>
    /\ kf = <<>>
    /\ status = "running"

\* print out_hdr; Pool(processes=args.cores); map queues its batches
StartPool ==
    /\ pc = "stats"
    /\ pc' = "map"
    /\ stdout' = Append(stdout, HeaderLine)
    /\ LET keys == sorted_keys(d)
       IN  /\ chunks' = get_tasks(keys, Chunksize(Len(keys), cores))
           /\ value' = [j \in 1..Len(keys) |-> NoLine]
    /\ UNCHANGED <<Build, Process, cores, taken, running>>

\* an idle worker takes the next batch off the task queue
TakeBatch ==
    /\ pc = "map"
    /\ taken < Len(chunks)
    /\ Cardinality(running) < cores
    /\ taken' = taken + 1
    /\ running' = running \cup {taken + 1}
    /\ UNCHANGED <<Build, Process, pc, cores, chunks, value, stdout>>

\* a worker finishes its batch: calc_stats of each key, stored in the list
FinishBatch(c) ==
    /\ pc = "map"
    /\ c \in running
    /\ running' = running \ {c}
    /\ value' = set_value(value, c, Len(chunks[1]),
                          [j \in 1..Len(chunks[c]) |->
                              calc_stats(d[chunks[c][j]], chunks[c][j])])
    /\ UNCHANGED <<Build, Process, pc, cores, chunks, taken, stdout>>

\* pool.map returns when every batch is stored; the lines are printed
PrintRows ==
    /\ pc = "map"
    /\ taken = Len(chunks)
    /\ running = {}
    /\ stdout' = stdout \o joined(value)
    /\ pc' = "done"
    /\ UNCHANGED <<Build, Process, cores, chunks, taken, running, value>>

NextPool ==
    \/ StartPool
    \/ TakeBatch
    \/ \E c \in 1..Len(chunks) : FinishBatch(c)
    \/ PrintRows

SpecPool == InitPool /\ [][NextPool]_vars

(***************************************************************************)
(* merge_tables: the cells of a table.                                     *)
(*                                                                         *)
(* A line of a table is the list of its cells (the line split at the       *)
(* delimiter).  A key cell is its text.  A statistic cell is the text the  *)
(* build mode or an earlier merge printed, kept as a record:               *)
(*   [t |-> "int",   hi |-> 0, lo |-> k, s |-> <<>>]   str(k), a count     *)
(*   [t |-> "float", hi |-> h, lo |-> l, s |-> <<>>]   str(x) of the float *)
(*        x = (h * 10^8 + l) / 10^15: str prints 12 significant digits,    *)
(*        which 15 decimals hold for 0.0001 <= x < 200 and for 0.0         *)
(*   [t |-> "str",   hi |-> 0, lo |-> 0, s |-> text]   any other text:     *)
(*        '' and 'nan', or a value float() refused in the build            *)
(* float(text) of a "float" cell is the number the text names (a double    *)
(* is determined by 12 digits of it), so a number and its text are one     *)
(* record.  A weighted mean is computed exactly and rounded once, to the   *)
(* 12 digits printed; the double arithmetic of the source differs from     *)
(* that by less than the distance of any exact result to a rounding        *)
(* boundary, except when the exact result is such a boundary: then the     *)
(* digit printed depends on the rounding of the doubles and both           *)
(* neighbours are possible (the argument up).  Means are not negative.     *)
(***************************************************************************)
Limb == 100000000
Unit == 10000000

IntCell(k) == [t |-> "int", hi |-> 0, lo |-> k, s |-> <<>>]

FloatCell(h, l) == [t |-> "float", hi |-> h, lo |-> l, s |-> <<>>]

StrCell(text) == [t |-> "str", hi |-> 0, lo |-> 0, s |-> text]

\* the text 'k.0'
Whole(k) == FloatCell(k * Unit, 0)

Blank == StrCell(<<>>)

Nan == StrCell(<<"n", "a", "n">>)

\* x not in ("", "nan")
NotBlankOrNan(x) == x # Blank /\ x # Nan

\* int(x): ValueError unless the text is an integer
IntOk(x) == x.t = "int"

\* float(x): ValueError for text that is no number ('nan' is one, but it
\* is filtered out wherever float is applied)
FloatOk(x) == x.t \in {"int", "float"}

\* float(x) for a text that names a number
Float(x) == IF x.t = "int" THEN Whole(x.lo) ELSE x

\* the order of floats
DecLt(a, b) == a.hi < b.hi \/ (a.hi = b.hi /\ a.lo < b.lo)

\* carries of the low limb moved into the high limb
Carry(h, l) == FloatCell(h + (l \div Limb), l % Limb)

RECURSIVE NDigits(_)
NDigits(k) == IF k < 10 THEN 1 ELSE 1 + NDigits(k \div 10)

RECURSIVE Pow10(_)
Pow10(k) == IF k = 0 THEN 1 ELSE 10 * Pow10(k - 1)

\* str(x) of the quotient x = (h * 10^8 + l) / n: the quotient rounded to
\* 12 significant digits, half-way cases up or down as up says
StrOfQuotient(h, l, n, up) ==
    LET qhi == h \div n
        t == (h % n) * Limb + l
        qlo == t \div n
        r == t % n
        digits == IF qhi > 0 THEN 8 + NDigits(qhi) ELSE NDigits(qlo)
        k == IF digits > 12 THEN digits - 12 ELSE 0
        low == qlo % Pow10(k)
        half == IF k = 0 THEN 0 ELSE 5 * Pow10(k - 1)
        above == IF k = 0 THEN 2 * r > n
                 ELSE low > half \/ (low = half /\ r > 0)
        tie == IF k = 0 THEN 2 * r = n ELSE low = half /\ r = 0
    IN  IF above \/ (tie /\ up) THEN Carry(qhi, qlo - low + Pow10(k))
        ELSE FloatCell(qhi, qlo - low)

\* whether the digits printed for the quotient depend on the rounding of
\* the doubles
HalfWay(h, l, n) ==
    StrOfQuotient(h, l, n, TRUE) # StrOfQuotient(h, l, n, FALSE)

(***************************************************************************)
(* merge_tables: the header.                                               *)
(***************************************************************************)
\* val.endswith(suffix)
EndsWith(val, suffix) ==
    /\ Len(val) >= Len(suffix)
    /\ SubSeq(val, Len(val) - Len(suffix) + 1, Len(val)) = suffix

\* val.find(sub) >= 0
Contains(val, sub) ==
    \E i \in 1..(Len(val) - Len(sub) + 1) :
        SubSeq(val, i, i + Len(sub) - 1) = sub

\* the variables the header loop sets.  Columns and positions count from 1
\* here (from 0 in the source); 0 stands for None
NoSchema ==
    [key_idcs |-> <<>>, val_idcs |-> <<>>, count_idx |-> 0, min_idx |-> 0,
     max_idx |-> 0, mean_idx |-> 0, mode_idx |-> 0, percentile_idcs |-> <<>>]

\* one iteration of "for idx, val in enumerate(rec)" on the header
header_cell(sch, idx, val) ==
    LET here == Len(sch.val_idcs) + 1
        more == Append(sch.val_idcs, idx)
    IN  IF EndsWith(val, <<"_", "c", "o", "u", "n", "t">>)
        THEN [sch EXCEPT !.count_idx = here, !.val_idcs = more]
        ELSE IF EndsWith(val, <<"_", "m", "i", "n">>)
        THEN [sch EXCEPT !.min_idx = here, !.val_idcs = more]
        ELSE IF EndsWith(val, <<"_", "m", "a", "x">>)
        THEN [sch EXCEPT !.max_idx = here, !.val_idcs = more]
        ELSE IF EndsWith(val, <<"_", "m", "e", "a", "n">>)
        THEN [sch EXCEPT !.mean_idx = here, !.val_idcs = more]
        ELSE IF EndsWith(val, <<"_", "m", "o", "d", "e">>)
        THEN [sch EXCEPT !.mode_idx = here, !.val_idcs = more]
        ELSE IF Contains(val, <<"_", "p", "e", "r", "c", "e", "n", "t", "i",
                                "l", "e", "_">>)
        THEN [sch EXCEPT !.percentile_idcs = Append(@, here),
                         !.val_idcs = more]
        ELSE [sch EXCEPT !.key_idcs = Append(@, idx)]

RECURSIVE HeaderFrom(_, _, _)
HeaderFrom(sch, rec, idx) ==
    IF idx > Len(rec) THEN sch
    ELSE HeaderFrom(header_cell(sch, idx, rec[idx]), rec, idx + 1)

\* the header loop over the first line of the first table
read_header(rec) == HeaderFrom(NoSchema, rec, 1)

\* tuple(rec[x] for x in idcs)
Pick(rec, idcs) == [i \in 1..Len(idcs) |-> rec[idcs[i]]]

\* d[key].append(vals) on the defaultdict(list)
Accumulate(tab, key, vals) ==
    IF key \in DOMAIN tab THEN [tab EXCEPT ![key] = Append(@, vals)]
    ELSE [k \in DOMAIN tab \cup {key} |->
             IF k = key THEN <<vals>> ELSE tab[k]]

(***************************************************************************)
(* merge_tables: the statistics of a key with several lines.  items[i]    *)
(* holds the cells of column i of the lines of d[key], in the order the    *)
(* lines were read.                                                        *)
(***************************************************************************)
Column(rows, i) == [j \in 1..Len(rows) |-> rows[j][i]]

RECURSIVE SumInts(_)
SumInts(xs) == IF xs = <<>> THEN 0 ELSE xs[1].lo + SumInts(Tail(xs))

\* the count of the first line instead of the sum
merged_count_of_first(items) == items[1]

\* sum([int(x) for x in items[count_idx]])
merged_count(items) == IntCell(SumInts(items))

\* [float(x) for x in items if x not in ("", "nan")]
RECURSIVE Numbers(_)
Numbers(items) ==
    IF items = <<>> THEN <<>>
    ELSE IF NotBlankOrNan(Head(items))
         THEN <<Float(Head(items))>> \o Numbers(Tail(items))
         ELSE Numbers(Tail(items))

\* whether the list comprehension above raises ValueError
Refused(items) ==
    \E j \in 1..Len(items) : NotBlankOrNan(items[j]) /\ ~FloatOk(items[j])

\* max(xs) on a list of floats
RECURSIVE MaxOf(_)
MaxOf(xs) ==
    IF Len(xs) = 1 THEN xs[1]
    ELSE LET m == MaxOf(Tail(xs))
         IN  IF DecLt(xs[1], m) THEN m ELSE xs[1]

\* min(xs) on a list of floats
RECURSIVE MinOf(_)
MinOf(xs) ==
    IF Len(xs) = 1 THEN xs[1]
    ELSE LET m == MinOf(Tail(xs))
         IN  IF DecLt(m, xs[1]) THEN m ELSE xs[1]

merged_min_as_max(items) ==
    IF Refused(items) \/ Numbers(items) = <<>> THEN Blank
    ELSE MaxOf(Numbers(items))

\* the try block of min_idx: ValueError (of float, or of min on an empty
\* list) leaves ''
merged_min(items) ==
    IF Refused(items) \/ Numbers(items) = <<>> THEN Blank
    ELSE MinOf(Numbers(items))

\* the try block of max_idx
merged_max(items) ==
    IF Refused(items) \/ Numbers(items) = <<>> THEN Blank
    ELSE MaxOf(Numbers(items))

\* the numerator of the weighted sum: the sum of weight * mean over the
\* lines whose mean is neither '' nor 'nan', in units of 10^-15
RECURSIVE WeightedFrom(_, _, _)
WeightedFrom(weights, means, j) ==
    IF j > Len(means) THEN FloatCell(0, 0)
    ELSE LET rest == WeightedFrom(weights, means, j + 1)
             x == Float(means[j])
         IN  IF NotBlankOrNan(means[j])
             THEN Carry(rest.hi + (weights[j] * x.hi)
                            + ((weights[j] * x.lo) \div Limb),
                        rest.lo + ((weights[j] * x.lo) % Limb))
             ELSE rest

\* the mean as a plain average of the lines, whatever their counts
merged_mean_unweighted(weights, total, means, up) ==
    LET sum == WeightedFrom([j \in 1..Len(means) |-> 1], means, 1)
    IN  IF Refused(means) THEN Blank
        ELSE IF sum = FloatCell(0, 0) THEN Blank
        ELSE StrOfQuotient(sum.hi, sum.lo, Len(means), up)

\* the try block of mean_idx: the weights are count / merged count (or all
\* 1 / number of lines); a sum of exactly 0 leaves '', and so does
\* ValueError
merged_mean(weights, total, means, up) ==
    LET sum == WeightedFrom(weights, means, 1)
    IN  IF Refused(means) THEN Blank
        ELSE IF sum = FloatCell(0, 0) THEN Blank
        ELSE StrOfQuotient(sum.hi, sum.lo, total, up)

\* c = defaultdict(int) is a CPython 2.7 dict of eight slots; the slots a
\* str key probes, in order, follow from the hash of the str (64-bit
\* build): i = hash & 7, then i = 5 * i + perturb + 1, perturb >>= 5
ProbeSeq(key) ==
    CASE key = Whole(0) -> <<1, 7, 0, 7, 3, 0>>
      [] key = Whole(1) -> <<4, 1, 2, 1, 1, 7>>
      [] key = Whole(2) -> <<3, 3, 4, 2, 0, 7>>
      [] key = Whole(8) -> <<1, 7, 5, 1, 5, 2>>
      [] key = Whole(10) -> <<1, 7, 5, 2, 3, 5>>
      [] key = StrCell(<<"x">>) -> <<1, 7, 7, 1, 5, 2>>
      [] key = Blank -> <<0, 1, 6, 7, 4, 5>>
      [] key = Nan -> <<4, 1, 3, 5, 5, 4>>

NoKey == [t |-> "none", hi |-> 0, lo |-> 0, s |-> <<>>]

EmptyDict == [i \in 0..7 |-> NoKey]

\* the slot a new key is stored in: the first free one it probes
RECURSIVE FreeSlot(_, _, _)
FreeSlot(slots, probes, j) ==
    IF slots[probes[j]] = NoKey THEN probes[j]
    ELSE FreeSlot(slots, probes, j + 1)

\* c[key] += n, as far as the keys are concerned
dict_insert(slots, key) ==
    IF \E i \in 0..7 : slots[i] = key THEN slots
    ELSE [slots EXCEPT ![FreeSlot(slots, ProbeSeq(key), 1)] = key]

RECURSIVE DictFrom(_, _, _)
DictFrom(slots, modes, j) ==
    IF j > Len(modes) THEN slots
    ELSE DictFrom(dict_insert(slots, modes[j]), modes, j + 1)

\* list(c.keys()): the keys in slot order
RECURSIVE KeysFrom(_, _)
KeysFrom(slots, i) ==
    IF i > 7 THEN <<>>
    ELSE IF slots[i] = NoKey THEN KeysFrom(slots, i + 1)
         ELSE <<slots[i]>> \o KeysFrom(slots, i + 1)

dict_keys(modes) == KeysFrom(DictFrom(EmptyDict, modes, 1), 0)

\* c[key] after the loop: the sum of this_count over the lines with this
\* mode
RECURSIVE ModeWeight(_, _, _)
ModeWeight(key, modes, weights) ==
    IF modes = <<>> THEN 0
    ELSE (IF Head(modes) = key THEN Head(weights) ELSE 0)
         + ModeWeight(key, Tail(modes), Tail(weights))

\* v.index(x) on the values listed in key order
RECURSIVE IndexOf(_, _, _, _, _)
IndexOf(k, modes, weights, x, i) ==
    IF ModeWeight(k[i], modes, weights) = x THEN i
    ELSE IndexOf(k, modes, weights, x, i + 1)

\* the mode of the smallest summed weight
merged_mode_lightest(modes, weights) ==
    LET k == dict_keys(modes)
        least == CHOOSE x \in {ModeWeight(k[i], modes, weights) :
                                  i \in 1..Len(k)} :
                     \A i \in 1..Len(k) :
                         ModeWeight(k[i], modes, weights) >= x
    IN  k[IndexOf(k, modes, weights, least, 1)]

\* k[v.index(max(v))]
merged_mode(modes, weights) ==
    LET k == dict_keys(modes)
        most == CHOOSE x \in {ModeWeight(k[i], modes, weights) :
                                 i \in 1..Len(k)} :
                    \A i \in 1..Len(k) :
                        ModeWeight(k[i], modes, weights) <= x
    IN  k[IndexOf(k, modes, weights, most, 1)]

\* sorted(num_vals)
RECURSIVE InsertDec(_, _)
InsertDec(x, xs) ==
    IF xs = <<>> THEN <<x>>
    ELSE IF DecLt(x, Head(xs)) THEN <<x>> \o xs
         ELSE <<Head(xs)>> \o InsertDec(x, Tail(xs))

RECURSIVE SortDec(_)
SortDec(xs) ==
    IF xs = <<>> THEN <<>> ELSE InsertDec(Head(xs), SortDec(Tail(xs)))

\* the smallest of the numeric values instead of their median
merged_percentile_lowest(items) ==
    LET num_vals == Numbers(items)
    IN  IF Len(num_vals) > 0 THEN SortDec(num_vals)[1] ELSE Blank

\* sorted(num_vals)[len(num_vals) / 2], or '' without numeric values
merged_percentile(items) ==
    LET num_vals == Numbers(items)
    IN  IF Len(num_vals) > 0
        THEN SortDec(num_vals)[Len(num_vals) \div 2 + 1]
        ELSE Blank

\* the else branch of the print loop for the lines rows of one key: the
\* statistic cells printed, and whether an exception ends the run instead
\* (int() of a count that is no integer, a merged count of 0, float() of a
\* percentile that is no number)
merged_vals(sch, rows, up) ==
    LET items == [i \in 1..Len(sch.val_idcs) |-> Column(rows, i)]
        counted == sch.count_idx # 0
        total == IF counted THEN SumInts(items[sch.count_idx])
                 ELSE Len(rows)
        weights == [j \in 1..Len(rows) |->
                       IF counted THEN items[sch.count_idx][j].lo ELSE 1]
        raised ==
            \/ counted /\ \E j \in 1..Len(rows) :
                              ~IntOk(items[sch.count_idx][j])
            \/ counted /\ sch.mean_idx # 0 /\ total = 0
            \/ \E p \in 1..Len(sch.percentile_idcs) :
                   Refused(items[sch.percentile_idcs[p]])
    IN  [raised |-> raised,
         vals |-> [i \in 1..Len(sch.val_idcs) |->
            IF \E p \in 1..Len(sch.percentile_idcs) :
                   sch.percentile_idcs[p] = i
            THEN merged_percentile(items[i])
            ELSE IF i = sch.mode_idx THEN merged_mode(items[i], weights)
            ELSE IF i = sch.mean_idx
                 THEN merged_mean(weights, total, items[i], up)
            ELSE IF i = sch.max_idx THEN merged_max(items[i])
            ELSE IF i = sch.min_idx THEN merged_min(items[i])
            ELSE IF i = sch.count_idx THEN merged_count(items[i])
            ELSE Blank]]

\* a line with its statistics replaced by merged ones even when it is the
\* only line of its key
pass_through_merged(sch, rows, up) == merged_vals(sch, rows, up)

\* the body of the print loop: a key with one line keeps its cells
pass_through(sch, rows, up) ==
    IF Len(rows) = 1 THEN [raised |-> FALSE, vals |-> rows[1]]
    ELSE merged_vals(sch, rows, up)

\* the lines the print loop writes for the keys from position i on, until
\* an exception ends the run
RECURSIVE PrintFrom(_, _, _, _, _)
PrintFrom(sch, tab, keys, i, ups) ==
    IF i > Len(keys) THEN [raised |-> FALSE, lines |-> <<>>]
    ELSE LET rec == pass_through(sch, tab[keys[i]], keys[i] \in ups)
             rest == PrintFrom(sch, tab, keys, i + 1, ups)
         IN  IF rec.raised THEN [raised |-> TRUE, lines |-> <<>>]
             ELSE [raised |-> rest.raised,
                   lines |-> <<keys[i] \o rec.vals>> \o rest.lines]

\* print(hdr) and the print loop
print_merged(h, sch, tab, ups) ==
    LET body == PrintFrom(sch, tab, sorted_keys(tab), 1, ups)
    IN  [raised |-> body.raised, lines |-> <<h>> \o body.lines]

(***************************************************************************)
(* merge_tables: the whole function.                                       *)
(***************************************************************************)
\* hdr = None
NoHdr == <<>>

NoTable == [k \in {} |-> <<>>]

\* only the first line of the first table taken as a header
read_line_one_header(st, rec, first) ==
    IF first /\ st.hdr = NoHdr
    THEN [st EXCEPT !.hdr = rec, !.sch = read_header(rec)]
    ELSE [st EXCEPT !.d = Accumulate(@, Pick(rec, st.sch.key_idcs),
                                     Pick(rec, st.sch.val_idcs))]

\* the body of "for ln in f" for the line rec; first is f.isfirstline()
read_line(st, rec, first) ==
    IF first
    THEN IF st.hdr = NoHdr
         THEN [st EXCEPT !.hdr = rec, !.sch = read_header(rec)]
         ELSE st
    ELSE [st EXCEPT !.d = Accumulate(@, Pick(rec, st.sch.key_idcs),
                                     Pick(rec, st.sch.val_idcs))]

RECURSIVE ReadFrom(_, _, _, _)
ReadFrom(st, files, i, j) ==
    IF i > Len(files) THEN st
    ELSE IF j > Len(files[i]) THEN ReadFrom(st, files, i + 1, 1)
    ELSE ReadFrom(read_line(st, files[i][j], j = 1), files, i, j + 1)

\* merge_tables(fnames): what it prints, and whether it ends in an
\* exception; ups are the keys whose mean is rounded up when half-way
merge_tables(files, ups) ==
    LET st == ReadFrom([hdr |-> NoHdr, sch |-> NoSchema, d |-> NoTable],
                       files, 1, 1)
    IN  print_merged(st.hdr, st.sch, st.d, ups)

(***************************************************************************)
(* Tables to merge: lines as the build mode prints them for the option     *)
(* set -c -m -M -a -o -p 50, with and without the count column.            *)
(***************************************************************************)
MaxTables == 3

FullHeader ==
    <<<<"k">>,
      <<"f", "_", "c", "o", "u", "n", "t">>,
      <<"f", "_", "m", "i", "n">>,
      <<"f", "_", "m", "a", "x">>,
      <<"f", "_", "m", "e", "a", "n">>,
      <<"f", "_", "m", "o", "d", "e">>,
      <<"f", "_", "p", "e", "r", "c", "e", "n", "t", "i", "l", "e", "_", "5", "0">>>>

\* the line of a group holding reps times the value whole
SameValues(key, reps, whole) ==
    <<key, IntCell(reps), Whole(whole), Whole(whole), Whole(whole),
      Whole(whole), Whole(whole)>>

\* the line of a group holding twice the text 'x'
TextValues(key) ==
    <<key, IntCell(2), Nan, Nan, Nan, StrCell(<<"x">>), StrCell(<<"x">>)>>

\* the line of a group holding twice the empty text
BlankValues(key) == <<key, IntCell(2), Nan, Nan, Nan, Blank, Blank>>

\* the line of a group holding 0.0, 8.0 and 'x'
MixedValues(key) ==
    <<key, IntCell(3), Whole(0), Whole(8), Whole(4), Whole(0), Whole(8)>>

FullTables ==
    {<<FullHeader, SameValues(<<"a">>, 1, 0)>>,
     <<FullHeader, SameValues(<<"a">>, 2, 2)>>,
     <<FullHeader, SameValues(<<"a">>, 1, 8)>>,
     <<FullHeader, TextValues(<<"a">>)>>,
     <<FullHeader, SameValues(<<"a">>, 3, 10), SameValues(<<"b">>, 1, 0)>>,
     <<FullHeader, SameValues(<<"a">>, 1, 2), SameValues(<<"b">>, 2, 8)>>,
     <<FullHeader, MixedValues(<<>>), BlankValues(<<"b">>)>>}

\* a table built without -c: no count column
WithoutCount(table) ==
    [j \in 1..Len(table) |-> <<table[j][1]>> \o SubSeq(table[j], 3, 7)]

Schemas == {FullTables, {WithoutCount(t) : t \in FullTables}}

RECURSIVE SeqsUpTo(_, _)
SeqsUpTo(S, n) ==
    IF n = 0 THEN {<<>>}
    ELSE LET shorter == SeqsUpTo(S, n - 1)
         IN  shorter \cup {Append(q, x) : q \in shorter, x \in S}

\* merge_tables called with one to MaxTables tables of one schema
InitMerge ==
    /\ backoffs = read_backoffs(<<NoFile, NoFile>>)
    /\ month_lag = 0
    /\ month_group = 0
    /\ recs = <<>>
    /\ kr = NoRec
    /\ keylists = <<>>
    /\ keysets = <<>>
    /\ sl = StatListNew
    /\ ret = [op |-> "none"]
    /\ cores = 1
    /\ chunks = <<>>
    /\ taken = 0
    /\ running = {}
    /\ value = <<>>
    /\ stdout = <<>>
    /\ \E tables \in Schemas :
          fnames \in SeqsUpTo(tables, MaxTables) \ {<<>>}
    /\ fi = [file |-> 1, line |-> 1]
    /\ hdr = NoHdr
    /\ schema = NoSchema
    /\ d = NoTable
    /\ pc = "merge"
    /\ args = <<>>
    /\ kf = <<>>
    /\ status = "running"

Idle == <<backoffs, month_lag, month_group, recs, kr, keylists, keysets,
          sl, ret, cores, chunks, taken, running, value>>

\* one iteration of "for ln in f"
ReadLine ==
    /\ pc = "merge"
    /\ fi.file <= Len(fnames)
    /\ LET st == read_line([hdr |-> hdr, sch |-> schema, d |-> d],
                           fnames[fi.file][fi.line], fi.line = 1)
       IN  /\ hdr' = st.hdr
           /\ schema' = st.sch
           /\ d' = st.d
    /\ fi' = IF fi.line < Len(fnames[fi.file])
             THEN [fi EXCEPT !.line = @ + 1]
             ELSE [file |-> fi.file + 1, line |-> 1]
    /\ UNCHANGED <<Idle, Process, fnames, pc, stdout>>

\* the input is exhausted: print(hdr) and the print loop
PrintMerged ==
    /\ pc = "merge"
    /\ fi.file > Len(fnames)
    /\ \E ups \in SUBSET DOMAIN d :
          LET out == print_merged(hdr, schema, d, ups)
          IN  /\ stdout' = out.lines
              /\ pc' = IF out.raised THEN "crashed" ELSE "merged"
    /\ UNCHANGED <<Idle, Process, Merge, d>>

NextMerge ==
    \/ ReadLine
    \/ PrintMerged

SpecMerge == InitMerge /\ [][NextMerge]_vars

(***************************************************************************)
(* main from its command line: the options are split, the KeyedFile is     *)
(* constructed (header, field resolution, backoff files), the input is     *)
(* read line by line, and the output stage follows.  An exception main     *)
(* does not catch ends the process with a traceback and exit status 1.     *)
(***************************************************************************)
\* Python's None where a str is expected
NoName == <<"None">>

\* s.strip() for the white space of the inputs
RECURSIVE Strip(_)
Strip(s) ==
    IF s = <<>> THEN s
    ELSE IF Head(s) \in {" ", "\t"} THEN Strip(Tail(s))
    ELSE IF s[Len(s)] \in {" ", "\t"} THEN Strip(SubSeq(s, 1, Len(s) - 1))
    ELSE s

\* int(f) of a str: white space around it is dropped, a sign may lead,
\* digits must follow and nothing else; otherwise ValueError
int(f) ==
    LET t == Strip(f)
        neg == t # <<>> /\ Head(t) = "-"
        digits == IF neg THEN Tail(t) ELSE t
    IN  IF digits # <<>> /\ AllDigits(digits)
        THEN [ok |-> TRUE,
              val |-> IF neg THEN 0 - DecVal(digits) ELSE DecVal(digits)]
        ELSE [ok |-> FALSE, val |-> 0]

\* names.index(f): the 0-based position of the first element equal to f,
\* or ValueError
index(names, f) ==
    IF \E i \in 1..Len(names) : names[i] = f
    THEN [ok |-> TRUE,
          val |-> (CHOOSE i \in 1..Len(names) :
                      names[i] = f /\ \A j \in 1..(i - 1) : names[j] # f) - 1]
    ELSE [ok |-> FALSE, val |-> 0]

\* the idx one iteration of names_to_cols computes; ok is FALSE for None
column_offset_first(names, f) ==
    IF int(f).ok THEN int(f)
    ELSE IF index(names, f).ok THEN [ok |-> TRUE, val |-> index(names, f).val + 1]
    ELSE [ok |-> FALSE, val |-> 0]

column(names, f) ==
    IF index(names, f).ok THEN [ok |-> TRUE, val |-> index(names, f).val + 1]
    ELSE int(f)

\* the indices without the test that raises FieldNotFoundError
names_to_cols_unchecked(names, fields) ==
    [raised |-> FALSE,
     res |-> [i \in 1..Len(fields) |-> column(names, fields[i]).val]]

\* KeyedFile.names_to_cols: the tuple of indices, or the FieldNotFoundError
\* of the first field whose idx is None or larger than len(names)
names_to_cols(names, fields) ==
    LET bad(i) == ~column(names, fields[i]).ok
                  \/ column(names, fields[i]).val > Len(names)
    IN  IF \E i \in 1..Len(fields) : bad(i)
        THEN [raised |-> TRUE, res |-> <<>>]
        ELSE [raised |-> FALSE,
              res |-> [i \in 1..Len(fields) |-> column(names, fields[i]).val]]

\* the files there are to open: their names and what they hold
OnDisk == {<<"R">>, <<"S">>}

FileNamed(bf) == IF bf = <<"R">> THEN RollupFile ELSE SparseFile

\* read_backoffs called with file names: the loop over a name that is not
\* None opens the file, and opening a file that is not there raises
\* IOError.  "except TypeError, IOError" is Python 2 for "except TypeError
\* as IOError": it catches TypeError alone, so the IOError leaves the
\* function.
read_backoff_files(bfs) ==
    IF \E i \in 1..Len(bfs) : bfs[i] # NoName /\ bfs[i] \notin OnDisk
    THEN [raised |-> TRUE, res |-> <<>>]
    ELSE [raised |-> FALSE,
          res |-> read_backoffs([i \in 1..Len(bfs) |->
                                    IF bfs[i] = NoName THEN NoFile
                                    ELSE FileNamed(bfs[i])])]

\* [x for x in xs if keep(x)] on positions: the elements of xs whose
\* position is in S, in order
RECURSIVE SelectSeq2(_, _, _)
SelectSeq2(xs, S, i) ==
    IF i > Len(xs) THEN <<>>
    ELSE (IF i \in S THEN <<xs[i]>> ELSE <<>>) \o SelectSeq2(xs, S, i + 1)

\* main, lines 587-590: args.backoff and args.key, from the -k values that
\* do not name a date field
Kept_k(a) ==
    {i \in 1..Len(a.key) :
        \A j \in 1..Len(a.date) : StrSplit(a.key[i], ",")[1] # a.date[j]}

args_backoff(a) ==
    SelectSeq2([i \in 1..Len(a.key) |->
                   IF Len(StrSplit(a.key[i], ",")) > 1
                   THEN StrSplit(a.key[i], ",")[2] ELSE NoName],
               Kept_k(a), 1)

args_key(a) ==
    SelectSeq2([i \in 1..Len(a.key) |-> StrSplit(a.key[i], ",")[1]],
               Kept_k(a), 1)

\* no KeyedFile
NoKeyedFile == [raised |-> "none", names |-> <<>>, field |-> 0, keys |-> <<>>,
                backoffs |-> <<>>, dates |-> <<>>]

\* KeyedFile.__init__, statement by statement: the attributes set, and the
\* exception that ended it
KeyedFile(a) ==
    LET names == IF a.header
                 THEN (IF a.infile = <<>> THEN << <<>> >>
                       ELSE StrSplit(a.infile[1], "\t"))
                 ELSE <<>>
        field == names_to_cols(names, <<a.field>>)
        keys == names_to_cols(names, args_key(a))
        tables == read_backoff_files(args_backoff(a))
        dates == names_to_cols(names, a.date)
        got == [NoKeyedFile EXCEPT !.names = names]
    IN  IF a.tty THEN [NoKeyedFile EXCEPT !.raised = "EmptyStdinError"]
        ELSE IF field.raised THEN [got EXCEPT !.raised = "FieldNotFoundError"]
        ELSE IF keys.raised
             THEN [got EXCEPT !.raised = "FieldNotFoundError",
                              !.field = field.res[1]]
        ELSE IF tables.raised
             THEN [got EXCEPT !.raised = "IOError", !.field = field.res[1],
                              !.keys = keys.res]
        ELSE IF dates.raised
             THEN [got EXCEPT !.raised = "FieldNotFoundError",
                              !.field = field.res[1], !.keys = keys.res,
                              !.backoffs = tables.res]
        ELSE [raised |-> IF Len(keys.res) = 0 /\ Len(dates.res) = 0
                         THEN "FieldNotFoundError" ELSE "none",
              names |-> names, field |-> field.res[1], keys |-> keys.res,
              backoffs |-> tables.res, dates |-> dates.res]

\* ln[i] for a 0-based i: a negative i counts from the end, an i outside
\* the list is an IndexError
item(ln, i) ==
    IF 0 <= i /\ i < Len(ln) THEN [ok |-> TRUE, val |-> ln[i + 1]]
    ELSE IF i < 0 /\ 0 - i <= Len(ln) THEN [ok |-> TRUE, val |-> ln[Len(ln) + i + 1]]
    ELSE [ok |-> FALSE, val |-> <<>>]

\* one iteration of read_recs on the columns the KeyedFile resolved: the
\* KeyedRecord of the line, or the IndexError of a column the line has not
\* or the ValueError strptime raises on a date
read_recs(file, line) ==
    LET ln == StrSplit(line, "\t")
        val == item(ln, file.field - 1)
        keys == [i \in 1..Len(file.keys) |-> item(ln, file.keys[i] - 1)]
        cells == [i \in 1..Len(file.dates) |-> item(ln, file.dates[i] - 1)]
        dts == [i \in 1..Len(cells) |->
                   StrptimeYm(StrRemove(StrRemove(cells[i].val, "-"), " "))]
    IN  IF ~val.ok \/ (\E i \in 1..Len(keys) : ~keys[i].ok)
           \/ (\E i \in 1..Len(cells) : ~cells[i].ok)
        THEN NoRec
        ELSE [ok |-> \A i \in 1..Len(dts) : dts[i].ok,
              keys |-> [i \in 1..Len(keys) |-> keys[i].val],
              val |-> ParseVal(val.val),
              dates |-> [i \in 1..Len(dts) |-> [y |-> dts[i].y, m |-> dts[i].m]]]

\* n below 100 written in decimal
Decimal(n) ==
    IF n < 10 THEN <<Digits[n + 1]>>
    ELSE <<Digits[(n \div 10) + 1], Digits[(n % 10) + 1]>>

\* delim.join(cells)
RECURSIVE TabJoin(_)
TabJoin(cells) ==
    IF Len(cells) = 1 THEN cells[1]
    ELSE cells[1] \o <<"\t">> \o TabJoin(Tail(cells))

\* input files.  The header names the columns a, 1, x and T: the second
\* column is called "1".
HeaderRow == TabJoin(<< <<"a">>, <<"1">>, <<"x">>, <<"T">> >>)

Jan == <<"2", "0", "1", "3", "0", "1">>

Monthly ==
    <<HeaderRow,
      TabJoin(<< <<"a">>, <<"b">>, <<"1">>, Jan >>),
      TabJoin(<< <<"a">>, <<"b">>, <<"2">>,
                 <<"2", "0", "1", "3", "-", "0", "1">> >>),
      TabJoin(<< <<"b">>, <<"b">>, <<"x">>, Jan >>)>>

Daily ==
    <<HeaderRow,
      TabJoin(<< <<"a">>, <<"b">>, <<"1">>, Jan \o <<"1", "5">> >>)>>

DailyDashed ==
    <<HeaderRow,
      TabJoin(<< <<"a">>, <<"b">>, <<"1">>,
                 <<"2", "0", "1", "3", "-", "0", "1", "-", "1", "5">> >>)>>

Ragged == <<HeaderRow, TabJoin(<< <<"a">>, <<"b">> >>)>>

Headless == <<TabJoin(<< <<"a">>, <<"b">>, <<"1">>, Jan >>)>>

\* twelve lines: a with the values 1 to 8, b with '', '', x, x
LongRows == <<8, 3, 1, 7, 2, 6, 5, 4>>

Long ==
    <<HeaderRow>>
    \o [i \in 1..Len(LongRows) |->
           TabJoin(<< <<"a">>, <<"b">>, Decimal(LongRows[i]), Jan >>)]
    \o [i \in 1..4 |->
           TabJoin(<< <<"b">>, <<"b">>, IF i <= 2 THEN <<>> ELSE <<"x">>, Jan >>)]

InFiles == {<<>>, Monthly, Daily, DailyDashed, Ragged, Headless, Long}

\* the -f, -k and -D values tried; "a,R" names the backoff file R, "a,m" a
\* file m that does not exist
FieldArgs == {<<"x">>, <<"3">>, <<"0">>, <<"9">>}

KeyArgs ==
    {<< <<"a">> >>, << <<"1">> >>, << <<"2">> >>, << <<"0">> >>,
     << <<"5">> >>, << <<"b">> >>, << <<"T">> >>,
     << <<"a", ",", "R">> >>, << <<"a", ",", "m">> >>,
     << <<"a">>, <<"1", ",", "S">> >>, << <<"1">>, <<"T">> >>}

DateArgs == {<<>>, << <<"T">> >>, << <<"4">> >>, << <<"b">> >>}

\* parse_args: -k is None when the option was never given
CommandLines ==
    {[header |-> h, field |-> f, key_given |-> TRUE, key |-> k, date |-> dt,
      tty |-> FALSE, infile |-> lines] :
        h \in BOOLEAN, f \in FieldArgs, k \in KeyArgs, dt \in DateArgs,
        lines \in InFiles}
    \cup {[header |-> h, field |-> <<"x">>, key_given |-> TRUE,
           key |-> << <<"a">> >>, date |-> <<>>, tty |-> TRUE,
           infile |-> <<>>] : h \in BOOLEAN}
    \cup {[header |-> h, field |-> <<"x">>, key_given |-> FALSE,
           key |-> <<>>, date |-> <<>>, tty |-> t, infile |-> Monthly] :
             h \in BOOLEAN, t \in BOOLEAN}

InitMain ==
    /\ args \in CommandLines
    /\ kf = NoKeyedFile
    /\ status = "running"
    /\ pc = "start"
    /\ backoffs = <<>>
    /\ month_lag = 0
    /\ month_group = 0
    /\ recs = <<>>
    /\ kr = NoRec
    /\ keylists = <<>>
    /\ keysets = <<>>
    /\ d = [k \in {} |-> StatListNew]
    /\ sl = StatListNew
    /\ ret = [op |-> "none"]
    /\ cores \in 1..MaxCores
    /\ chunks = <<>>
    /\ taken = 0
    /\ running = {}
    /\ value = <<>>
    /\ stdout = <<>>
    /\ fnames = <<>>
    /\ fi = [file |-> 1, line |-> 1]
    /\ hdr = <<>>
    /\ schema = <<>>

\* print("warning: ...") and parser.print_help() of the except clauses
WarningLine == [line |-> "warning"]
HelpLine == [line |-> "help"]

\* main up to the construction of the KeyedFile, with the except clauses
\* of the try statement
Construct ==
    /\ pc = "start"
    /\ IF ~args.key_given
       THEN \* "for x in args.key" on None: TypeError, outside the try
            /\ pc' = "crashed"
            /\ status' = "1"
            /\ UNCHANGED <<kf, backoffs, fi, stdout>>
       ELSE LET k == KeyedFile(args)
            IN  /\ kf' = k
                /\ IF k.raised = "none"
                   THEN /\ pc' = "build"
                        /\ backoffs' = k.backoffs
                        /\ fi' = [fi EXCEPT !.line = IF args.header THEN 2 ELSE 1]
                        /\ UNCHANGED <<status, stdout>>
                   ELSE IF k.raised = "IOError"
                   THEN /\ pc' = "crashed"
                        /\ status' = "1"
                        /\ UNCHANGED <<backoffs, fi, stdout>>
                   ELSE /\ pc' = "exit"
                        /\ status' = IF k.raised = "EmptyStdinError"
                                     THEN "1" ELSE "2"
                        /\ stdout' = <<WarningLine, HelpLine>>
                        /\ UNCHANGED <<backoffs, fi>>
    /\ UNCHANGED <<args, month_lag, month_group, recs, kr, keylists, keysets,
                   d, sl, ret, cores, chunks, taken, running, value, fnames,
                   hdr, schema>>

\* one iteration of "for kr in kf.read_recs()" on the next line of the
\* input, with the inner loop over its key sets
ReadInput ==
    /\ pc = "build"
    /\ fi.line <= Len(args.infile)
    /\ LET rec == read_recs(kf, args.infile[fi.line])
       IN  IF rec.ok
           THEN /\ kr' = rec
                /\ recs' = Append(recs, rec)
                /\ keylists' = all_keylists(rec, backoffs, month_lag, month_group)
                /\ keysets' = all_keysets(rec, backoffs, month_lag, month_group)
                /\ d' = InsertAll(d, keysets', rec.val)
                /\ fi' = [fi EXCEPT !.line = @ + 1]
                /\ UNCHANGED <<pc, status>>
           ELSE /\ pc' = "crashed"
                /\ status' = "1"
                /\ UNCHANGED <<kr, recs, keylists, keysets, d, fi>>
    /\ UNCHANGED <<args, kf, backoffs, month_lag, month_group, sl, ret,
                   Output, fnames, hdr, schema>>

\* a loop that ends while lines are left
EndOfFile_early ==
    /\ pc = "build"
    /\ pc' = "stats"
    /\ UNCHANGED <<backoffs, month_lag, month_group, recs, kr, keylists,
                   keysets, d, sl, ret, Output, Merge, Process>>

\* the input is exhausted: the loop ends
EndOfFile ==
    /\ pc = "build"
    /\ fi.line > Len(args.infile)
    /\ pc' = "stats"
    /\ UNCHANGED <<backoffs, month_lag, month_group, recs, kr, keylists,
                   keysets, d, sl, ret, Output, Merge, Process>>

\* main returns and the interpreter exits
Return ==
    /\ pc = "done"
    /\ pc' = "exit"
    /\ status' = "0"
    /\ UNCHANGED <<backoffs, month_lag, month_group, recs, kr, keylists,
                   keysets, d, sl, ret, Output, Merge, args, kf>>

NextMain ==
    \/ Construct
    \/ ReadInput
    \/ EndOfFile
    \/ StartPool
    \/ TakeBatch
    \/ \E c \in 1..Len(chunks) : FinishBatch(c)
    \/ PrintRows
    \/ Return

SpecMain == InitMain /\ [][NextMain]_vars

(***************************************************************************)
(* Properties of the aggregation run.                                      *)
(***************************************************************************)
NKeys == Len(KeyCols)
NFields == Len(KeyCols) + Len(DateCols)

\* number of positions of seq holding x
Occ(x, seq) == Cardinality({i \in 1..Len(seq) : seq[i] = x})

NoDup(seq) == \A i, j \in 1..Len(seq) : i # j => seq[i] # seq[j]

RECURSIVE SeqProd(_)
SeqProd(seq) == IF seq = <<>> THEN 1 ELSE Head(seq) * SeqProd(Tail(seq))

\* the window the date windower is specified to return
SpecifiedWindow(dt, lag, width) ==
    << <<>> >> \o [i \in 1..(width + 1) |->
                      StrftimeYm(AddMonths(dt, lag - (i - 1)))]

\* C1: for every year-month m, lag L and width W, valid_months returns
\* ['', label(m+L), label(m+L-1), ..., label(m+L-W)]; in particular 201308
\* with lag 2 and width 1 gives ['', '201310', '201309'].
C1_WindowIsLagged ==
    kr.ok =>
       /\ keylists[NKeys + 1]
             = SpecifiedWindow(kr.dates[1], month_lag, month_group)
       /\ (kr.dates[1] = [y |-> 2013, m |-> 8] /\ month_lag = 2
              /\ month_group = 1) =>
             keylists[NKeys + 1]
                = << <<>>, <<"2", "0", "1", "3", "1", "0">>,
                     <<"2", "0", "1", "3", "0", "9">> >>

\* the candidates the key expander is specified to use for field f of kr
SpecifiedCandidates(f) ==
    IF f <= NKeys
    THEN LET k == kr.keys[f]
         IN  <<k>>
             \o (IF k # <<>> THEN << <<>> >> ELSE <<>>)
             \o (IF k \in DOMAIN backoffs[f] THEN backoffs[f][k] ELSE <<>>)
    ELSE valid_months(kr.dates[f - NKeys], month_lag, month_group)

\* the specified candidate lists of fields f, f+1, ...
RECURSIVE SpecifiedFrom(_)
SpecifiedFrom(f) ==
    IF f > NFields THEN <<>>
    ELSE <<SpecifiedCandidates(f)>> \o SpecifiedFrom(f + 1)

\* the n-th tuple (from 0) of the cartesian product of the lists cs in
\* field order, the last field varying fastest: field f holds candidate
\* number (n div (product of the later fields' sizes)) mod (size of field f)
NthTuple(cs, n) ==
    [f \in 1..Len(cs) |->
        LET later == SeqProd([g \in 1..(Len(cs) - f) |-> Len(cs[f + g])])
        IN  cs[f][((n \div later) % Len(cs[f])) + 1]]

\* C2: the key tuples of a record are exactly the cartesian product, in
\* field order, of the per-field candidate lists: exact value, wildcard if
\* the value is non-empty, the value's alternates in the field's own
\* backoff table; the date windower's output for a date field.
C2_KeysetsAreProduct ==
    kr.ok =>
       LET cs == SpecifiedFrom(1)
       IN  /\ Len(keysets) = SeqProd([f \in 1..NFields |-> Len(cs[f])])
           /\ \A n \in 1..Len(keysets) : keysets[n] = NthTuple(cs, n - 1)

\* a record whose first key has alternates and whose second key is a
\* non-empty value absent from its field's table
C2_Witness ==
    /\ kr.ok
    /\ kr.keys[1] \in DOMAIN backoffs[1]
    /\ kr.keys[2] # <<>>
    /\ kr.keys[2] \notin DOMAIN backoffs[2]
    /\ keylists[2] = <<kr.keys[2], <<>> >>
    /\ Len(keysets) > Len(keylists[1])

\* C3 as stated: all_keysets never produces a key tuple twice for a record.
C3_NoKeyTwice == kr.ok => NoDup(keysets)

\* the alternates of kr's value in field f are pairwise distinct and hold
\* neither the value itself nor the wildcard
CleanAlternates(f) ==
    LET k == kr.keys[f]
    IN  k \in DOMAIN backoffs[f] =>
           /\ NoDup(backoffs[f][k])
           /\ \A j \in 1..Len(backoffs[f][k]) :
                 backoffs[f][k][j] \notin {k, <<>>}

\* C3 as amended: a key tuple is produced once per expansion path (as
\* often as the product of the multiplicities of its slots in the fields'
\* candidate lists), so the tuples of a record are pairwise distinct
\* exactly when every non-date field's alternates are clean.
C3_OncePerPath ==
    kr.ok =>
       /\ \A n \in 1..Len(keysets) :
             Occ(keysets[n], keysets)
                = SeqProd([f \in 1..NFields |->
                              Occ(keysets[n][f], keylists[f])])
       /\ NoDup(keysets) <=> \A f \in 1..NKeys : CleanAlternates(f)

\* a record with an alternate equal to its exact value: a tuple made twice
C3_Witness ==
    /\ kr.ok
    /\ ~CleanAlternates(1)
    /\ \E n \in 1..Len(keysets) : Occ(keysets[n], keysets) >= 2

\* the key tuples all_keysets produced for the records rs, in order
RECURSIVE ProducedBy(_)
ProducedBy(rs) ==
    IF rs = <<>> THEN <<>>
    ELSE all_keysets(Head(rs), backoffs, month_lag, month_group)
         \o ProducedBy(Tail(rs))

\* C4: after the build pass the count of every group is the number of times
\* its key was produced over all records, duplicates counted, and a group
\* exists exactly when its key was produced.
C4_CountIsProduced ==
    LET all == ProducedBy(recs)
    IN  /\ DOMAIN d = {all[n] : n \in 1..Len(all)}
        /\ \A g \in DOMAIN d : get_count(d[g]) = Occ(g, all)

\* the pass has ended after two records, and some group was credited
\* twice by one record
C4_Witness ==
    /\ pc = "stats"
    /\ Len(recs) = 2
    /\ \E g \in DOMAIN d :
          /\ get_count(d[g]) >= 3
          /\ Occ(g, keysets) >= 2

Count(g) == IF g \in DOMAIN d THEN get_count(d[g]) ELSE 0

RECURSIVE SumCounts(_)
SumCounts(gs) ==
    IF gs = {} THEN 0
    ELSE LET g == CHOOSE x \in gs : TRUE
         IN  Count(g) + SumCounts(gs \ {g})

\* the groups carrying an individual value in field f, the other slots as w
ValueGroups(w, f) ==
    {g \in DOMAIN d : g[f] # <<>> /\ [g EXCEPT ![f] = <<>>] = w}

\* the groups carrying the wildcard in field f
WildGroups(f) == {g \in DOMAIN d : g[f] = <<>>}

\* C5 as stated: for any key field, the count of the wildcard group is the
\* sum of the counts of the groups carrying each individual value.
C5_WildcardIsSum ==
    pc = "stats" =>
       \A f \in 1..NFields : \A w \in WildGroups(f) :
          Count(w) = SumCounts(ValueGroups(w, f))

\* the records among rs whose value in key field f is ''
RECURSIVE EmptyIn(_, _)
EmptyIn(rs, f) ==
    IF rs = <<>> THEN <<>>
    ELSE (IF Head(rs).keys[f] = <<>> THEN <<Head(rs)>> ELSE <<>>)
         \o EmptyIn(Tail(rs), f)

\* the key tuples produced for the records whose value in field f is ''
EmptyProduced(f) ==
    IF f > NKeys THEN <<>> ELSE ProducedBy(EmptyIn(recs, f))

\* field f credits each record to one value only: no record's value has
\* alternates (key field), the window has width 0 (date field)
SingleValued(f) ==
    IF f <= NKeys
    THEN \A i \in 1..Len(recs) : recs[i].keys[f] \notin DOMAIN backoffs[f]
    ELSE month_group = 0

\* C5 as amended: for a single-valued field, the count of the wildcard
\* group is the sum of the counts of the groups carrying each non-empty
\* value, plus the insertions of the records whose value there is empty.
C5_WildcardIsSumPlusEmpty ==
    \A f \in 1..NFields :
       SingleValued(f) =>
          LET emp == EmptyProduced(f)
          IN  \A w \in WildGroups(f) :
                 Count(w) = SumCounts(ValueGroups(w, f)) + Occ(w, emp)

\* after the pass: a wildcard group of the first key fed by two different
\* values and by a record with an empty value
C5_Witness ==
    /\ pc = "stats"
    /\ SingleValued(1)
    /\ \E g \in DOMAIN d :
          /\ g[1] = <<>>
          /\ ValueGroups(g, 1) # {}
          /\ Occ(g, EmptyProduced(1)) >= 1

(***************************************************************************)
(* Properties of StatList                                                  *)
(***************************************************************************)

\* the list built by adding the values of vals in order
Added(vals) == [krs |-> vals, is_sorted |-> FALSE]

Values(krs) == {krs[i] : i \in 1..Len(krs)}

Numeric(krs) == {i \in 1..Len(krs) : krs[i].isnum}

TopFrequency(krs) ==
    CHOOSE c \in 0..Len(krs) :
       /\ \A v \in Values(krs) : Occ(v, krs) <= c
       /\ \E v \in Values(krs) : Occ(v, krs) = c

C7_PercentileIsFloorIndex ==
    /\ get_percentiles(Added(<<NumVal(1), NumVal(2), NumVal(3), NumVal(4)>>),
                       <<50>>, FALSE).ret.vals = <<NumVal(3)>>
    /\ (ret.op = "percentiles" /\ ~ret.only_numeric /\ sl.krs # <<>>) =>
          LET n == Len(sl.krs)
              asc == sort(sl.krs)
          IN  /\ ~ret.err
              /\ \A i \in 1..Len(ret.percentiles) :
                    ret.vals[i] = asc[(ret.percentiles[i] * n) \div 100 + 1]

\* C8: with numeric_only, whenever the group holds a numeric value every
\* percentile returned is a numeric value.
C8_NumericOnlyIsNumeric ==
    (ret.op = "percentiles" /\ ret.only_numeric /\ Numeric(sl.krs) # {}) =>
       /\ ~ret.err
       /\ \A i \in 1..Len(ret.vals) : ret.vals[i].isnum

IsNumeric(v) == v.isnum

\* C9: get_count counts every added record, non-numeric ones included;
\* get_min, get_max and get_mean are computed over the numeric values
\* only, with min <= mean <= max when there is one, and each is
\* not-a-number when the group has no numeric value; every query returns.
C9_MissingValuePolicy ==
    LET krs == sl.krs
        nums == Numeric(krs)
    IN  /\ ret.op = "count" => ret.val = Len(krs)
        /\ ret.op \in {"min", "max", "mean"} =>
              ret.val.kind = (IF nums = {} THEN "nan" ELSE "fin")
        /\ (ret.op = "min" /\ nums # {}) =>
              /\ \E i \in nums : ToFloat(krs[i]) = ret.val
              /\ \A i \in nums : ~FloatLt(ToFloat(krs[i]), ret.val)
        /\ (ret.op = "max" /\ nums # {}) =>
              /\ \E i \in nums : ToFloat(krs[i]) = ret.val
              /\ \A i \in nums : ~FloatLt(ret.val, ToFloat(krs[i]))
        /\ (ret.op = "mean" /\ nums # {}) =>
              /\ ret.val = get_mean(Added(SelectSeq(krs, IsNumeric)))
              /\ ~FloatLt(ret.val, get_min(sl))
              /\ ~FloatLt(get_max(sl), ret.val)

\* everything the six queries return for a list
Results(s) ==
    <<get_count(s), get_min(s), get_max(s), get_mean(s), get_mode(s).ret,
      [a \in PercentileArgs \X BOOLEAN |-> get_percentiles(s, a[1], a[2]).ret]>>

CanonicalOrder ==
    <<StrVal(<<"x">>), NumVal(2), StrVal(<<>>), Large, NumVal(1)>>

RECURSIVE Repeat(_, _)
Repeat(v, k) == IF k = 0 THEN <<>> ELSE <<v>> \o Repeat(v, k - 1)

RECURSIVE CanonicalFrom(_, _)
CanonicalFrom(krs, i) ==
    IF i > Len(CanonicalOrder) THEN <<>>
    ELSE Repeat(CanonicalOrder[i], Occ(CanonicalOrder[i], krs))
            \o CanonicalFrom(krs, i + 1)

\* one sequence of adds per multiset: a function of the multiset alone
Canonical(krs) == CanonicalFrom(krs, 1)

\* C10: the statistics are order-independent: any two sequences of adds of
\* the same multiset, with queries interleaved, return the same results.
\* Stated as: every list reachable by adds and interleaved queries returns
\* what the canonical sequence of adds of its multiset returns.
C10_OrderIndependent ==
    Results(sl) = Results(Added(Canonical(sl.krs)))

(***************************************************************************)
(* Properties of the output stage.                                         *)
(***************************************************************************)
\* the lines printed after the header
Rows == SubSeq(stdout, 2, Len(stdout))

\* C11: once the output is printed, the lines after the header are one per
\* group key of d, each the calc_stats line of its group, in strictly
\* ascending order of the key tuples - whatever the number of workers and
\* the order in which the batches were finished.  (Without any group the
\* join of no lines is printed: one empty line.)
C11_RowsSortedOncePerKey ==
    pc = "done" =>
        /\ stdout[1] = HeaderLine
        /\ IF DOMAIN d = {} THEN Rows = <<BlankLine>>
           ELSE /\ Len(Rows) = Cardinality(DOMAIN d)
                /\ {Rows[i].key : i \in 1..Len(Rows)} = DOMAIN d
                /\ \A i \in 1..Len(Rows) :
                      Rows[i] = calc_stats(d[Rows[i].key], Rows[i].key)
                /\ \A i, j \in 1..Len(Rows) :
                      i < j => TupleLt(Rows[i].key, Rows[j].key)

\* two workers, more than one batch, and the second batch stored before the
\* first one
C11_OutOfOrderSeen ==
    /\ pc = "map"
    /\ cores = 2
    /\ Len(chunks) >= 2
    /\ value[1] = NoLine
    /\ value[Len(value)] # NoLine

C11_Witness ==
    /\ pc = "done"
    /\ cores = 2
    /\ Len(Rows) >= 8
    /\ Len(chunks) >= 2
    /\ Len(chunks[1]) >= 2

(***************************************************************************)
(* Properties of merge_tables.                                             *)
(***************************************************************************)
\* the keys that were read on more than one line
SeveralLines == {k \in DOMAIN d : Len(d[k]) > 1}

\* the data lines printed
DataLines == SubSeq(stdout, 2, Len(stdout))

\* the line printed for key k, and its cell in statistic column i
LineOf(k) ==
    CHOOSE l \in {DataLines[i] : i \in 1..Len(DataLines)} :
        SubSeq(l, 1, Len(k)) = k

CellOf(k, i) == LineOf(k)[Len(k) + i]

\* the cells read for key k in statistic column i, one per line
CellsOf(k, i) == [j \in 1..Len(d[k]) |-> d[k][j][i]]

IsNumber(x) == x.t \in {"int", "float"}

\* the weight of line j of key k: its count, or 1 without a count column
WeightOf(k, j) ==
    IF schema.count_idx = 0 THEN 1 ELSE d[k][j][schema.count_idx].lo

RECURSIVE TotalWeight(_, _)
TotalWeight(k, n) == IF n = 0 THEN 0 ELSE TotalWeight(k, n - 1) + WeightOf(k, n)

\* the sum of weight * mean over the first n lines of key k, taken over
\* the lines of J only, in units of 10^-15, as the pair of its limbs
RECURSIVE SumOfProducts(_, _, _)
SumOfProducts(k, n, J) ==
    IF n = 0 THEN <<0, 0>>
    ELSE LET before == SumOfProducts(k, n - 1, J)
             x == Float(d[k][n][schema.mean_idx])
             low == before[2] + WeightOf(k, n) * x.lo
         IN  IF n \in J
             THEN <<before[1] + WeightOf(k, n) * x.hi + (low \div Limb),
                    low % Limb>>
             ELSE before

\* the lines of key k with a mean that is a number
NumericMeans(k) ==
    {j \in 1..Len(d[k]) : IsNumber(d[k][j][schema.mean_idx])}

\* the text m is 12 significant digits of the quotient of the sum S (a
\* pair of limbs) by n: it has no digit beyond the 12th, and it is within
\* half a unit of its last digit of the quotient
IsTwelveDigitsOf(m, S, n) ==
    LET digits == IF m.hi > 0 THEN 8 + NDigits(m.hi) ELSE NDigits(m.lo)
        unit == IF digits > 12 THEN Pow10(digits - 12) ELSE 1
        gap == (m.hi * n - S[1]) * Limb + (m.lo * n - S[2])
    IN  /\ m.t = "float"
        /\ m.lo % unit = 0
        /\ m.hi * n - S[1] \in -n..n
        /\ 2 * gap <= n * unit
        /\ -2 * gap <= n * unit

\* the lines (count 3, mean 10.0) and (count 1, mean 2.0) of the example
IsExample(k) ==
    /\ schema.count_idx # 0
    /\ CellsOf(k, schema.count_idx) = <<IntCell(3), IntCell(1)>>
    /\ CellsOf(k, schema.mean_idx) = <<Whole(10), Whole(2)>>

C12_EqualWeightsSeen ==
    /\ pc = "merged"
    /\ schema.count_idx = 0
    /\ \E k \in SeveralLines :
          /\ CellsOf(k, schema.mean_idx) = <<Whole(10), Whole(2)>>
          /\ CellOf(k, schema.mean_idx) = Whole(6)

\* a table was merged with itself
SelfMerge == Len(fnames) = 2 /\ fnames[1] = fnames[2]

\* the keys of the data lines of a table
KeysOf(table) ==
    {Pick(table[j], schema.key_idcs) : j \in 2..Len(table)}

\* C13, as stated: merging a table with itself leaves the count, the min
\* and the max of every group as they are in the table
C13_SelfMergeIdempotent ==
    (pc = "merged" /\ SelfMerge) =>
        \A k \in KeysOf(fnames[1]) :
            \A i \in {schema.count_idx, schema.min_idx, schema.max_idx}
                       \ {0} :
                CellOf(k, i) = d[k][1][i]

\* C13, amended: merging a table with itself doubles the count of every
\* group; its min and its max stay as they are when they are numbers and
\* become '' when they are 'nan' or ''
C13_SelfMergeDoublesCount ==
    (pc = "merged" /\ SelfMerge) =>
        \A k \in KeysOf(fnames[1]) :
            /\ \A i \in {schema.count_idx} \ {0} :
                   CellOf(k, i) = IntCell(2 * d[k][1][i].lo)
            /\ \A i \in {schema.min_idx, schema.max_idx} \ {0} :
                   CellOf(k, i) = IF IsNumber(d[k][1][i]) THEN d[k][1][i]
                                  ELSE Blank

\* a table with a numeric group and a group without numbers was merged
\* with itself
C13_Witness ==
    /\ pc = "merged"
    /\ SelfMerge
    /\ schema.count_idx # 0
    /\ \E k \in KeysOf(fnames[1]) : d[k][1][schema.min_idx] = Nan
    /\ \E k \in KeysOf(fnames[1]) :
          /\ IsNumber(d[k][1][schema.min_idx])
          /\ DecLt(d[k][1][schema.min_idx], d[k][1][schema.max_idx])

\* the run of merge_tables is over
Finished == pc \in {"merged", "crashed"}

\* the orders in which n tables can be listed
Orders(n) == {p \in [1..n -> 1..n] : \A i, j \in 1..n : p[i] = p[j] => i = j}

\* the tables listed in the order p
Reordered(p) == [i \in 1..Len(fnames) |-> fnames[p[i]]]

\* C14: whatever the order in which the tables are listed, the same lines
\* are printed in the same order (the means that are half-way between two
\* texts of 12 digits rounded whichever way makes the outputs agree)
C14_OrderOfTablesIrrelevant ==
    Finished =>
        \A p \in Orders(Len(fnames)) :
            \E ups \in SUBSET DOMAIN d :
                merge_tables(Reordered(p), ups).lines = stdout

\* two tables were merged whose lines for one key have different modes
\* and the same count
C14_TieSeen ==
    /\ pc = "merged"
    /\ Len(fnames) = 2
    /\ \E k \in SeveralLines :
          /\ Len(d[k]) = 2
          /\ d[k][1][schema.mode_idx] # d[k][2][schema.mode_idx]
          /\ WeightOf(k, 1) = WeightOf(k, 2)

\* the first two tables merged, then the result merged with the third
\* table: what the second run prints, or raised if a run ends in an
\* exception
TwoSteps(u1, u2) ==
    LET inner == merge_tables(<<fnames[1], fnames[2]>>, u1)
    IN  IF inner.raised THEN inner
        ELSE merge_tables(<<inner.lines, fnames[3]>>, u2)

\* the statistic columns named by the positions idxs agree, line by line,
\* in the output out and in what was printed
SameColumns(out, idxs) ==
    /\ ~out.raised
    /\ Len(out.lines) = Len(stdout)
    /\ \A i \in 2..Len(stdout) :
          /\ Pick(out.lines[i], schema.key_idcs)
                 = Pick(stdout[i], schema.key_idcs)
          /\ \A c \in idxs \ {0} :
                 out.lines[i][Len(schema.key_idcs) + c]
                     = stdout[i][Len(schema.key_idcs) + c]

\* merging in two steps gives the columns idxs of merging in one step,
\* for some way of rounding the means that are half-way
AssociativeOn(idxs) ==
    (pc = "merged" /\ Len(fnames) = 3) =>
        \E u1 \in SUBSET DOMAIN d, u2 \in SUBSET DOMAIN d :
            SameColumns(TwoSteps(u1, u2), idxs)

\* C15: for three tables A, B, C the count, min, max, mean and mode of
\* every group are the same whether merge(A, B) is merged with C or A, B
\* and C are merged in one run
C15_TwoStepsEqualOne ==
    AssociativeOn({schema.count_idx, schema.min_idx, schema.max_idx,
                   schema.mean_idx, schema.mode_idx})

\* the part of C15 that holds: count, min and max, up to a min or max of
\* 'nan' that a merge prints as ''
C15_CountMinMax ==
    AssociativeOn({schema.count_idx, schema.min_idx, schema.max_idx})

\* the part of C15 about the mean alone
C15_Mean == AssociativeOn({schema.mean_idx})

\* the part of C15 about the mode alone
C15_Mode == AssociativeOn({schema.mode_idx})

\* the cells of a column that are neither '' nor 'nan', as numbers
Kept(cells) ==
    {Float(cells[j]) : j \in {i \in 1..Len(cells) : NotBlankOrNan(cells[i])}}

\* C16: for a key read on several lines the merged min is the smallest
\* and the merged max the largest of the cells of its lines that are
\* neither '' nor 'nan', and '' when there is no such cell; a merged min
\* and a merged max that are both numbers are in this order
C16_MinMaxOfKept ==
    pc = "merged" =>
        \A k \in SeveralLines :
            LET mins == Kept(CellsOf(k, schema.min_idx))
                maxs == Kept(CellsOf(k, schema.max_idx))
                lo == CellOf(k, schema.min_idx)
                hi == CellOf(k, schema.max_idx)
            IN  /\ IF mins = {} THEN lo = Blank
                   ELSE lo \in mins /\ \A x \in mins : ~DecLt(x, lo)
                /\ IF maxs = {} THEN hi = Blank
                   ELSE hi \in maxs /\ \A x \in maxs : ~DecLt(hi, x)
                /\ (IsNumber(lo) /\ IsNumber(hi)) => ~DecLt(hi, lo)

\* one key was merged from lines with different numbers, another one from
\* a line with a number and a line with 'nan'
C16_Witness ==
    /\ pc = "merged"
    /\ \E k \in SeveralLines :
          /\ Cardinality(Kept(CellsOf(k, schema.min_idx))) > 1
          /\ DecLt(CellOf(k, schema.min_idx), CellOf(k, schema.max_idx))
    /\ \E k \in SeveralLines :
          /\ \E j \in 1..Len(d[k]) : d[k][j][schema.min_idx] = Nan
          /\ IsNumber(CellOf(k, schema.min_idx))

\* a key was merged from lines that all have 'nan' as min and max
C16_AllDiscardedSeen ==
    /\ pc = "merged"
    /\ \E k \in SeveralLines :
          /\ Kept(CellsOf(k, schema.min_idx)) = {}
          /\ CellOf(k, schema.max_idx) = Blank

\* the summed weight of the mode v among the first n lines of key k
RECURSIVE SummedWeight(_, _, _)
SummedWeight(k, v, n) ==
    IF n = 0 THEN 0
    ELSE SummedWeight(k, v, n - 1)
         + (IF d[k][n][schema.mode_idx] = v THEN WeightOf(k, n) ELSE 0)

\* the modes of the lines of key k
ModesOf(k) == {d[k][j][schema.mode_idx] : j \in 1..Len(d[k])}

\* C17: for a key read on several lines every mode of its lines weighs
\* the sum of the counts of the lines that report it (1 per line without
\* a count column); the merged mode is one of them, and no other mode
\* weighs more
C17_ModeIsHeaviest ==
    pc = "merged" =>
        \A k \in SeveralLines :
            LET m == CellOf(k, schema.mode_idx)
            IN  /\ m \in ModesOf(k)
                /\ \A v \in ModesOf(k) :
                       SummedWeight(k, v, Len(d[k]))
                           <= SummedWeight(k, m, Len(d[k]))

\* a key was merged whose heaviest mode is reported by several lines and
\* whose lines report another mode as well, with a count column
C17_Witness ==
    /\ pc = "merged"
    /\ schema.count_idx # 0
    /\ \E k \in SeveralLines :
          LET m == CellOf(k, schema.mode_idx)
          IN  /\ Cardinality({j \in 1..Len(d[k]) :
                                 d[k][j][schema.mode_idx] = m}) > 1
              /\ \E j \in 1..Len(d[k]) :
                     SummedWeight(k, m, Len(d[k])) > WeightOf(k, j)
              /\ \E v \in ModesOf(k) :
                     /\ v # m
                     /\ SummedWeight(k, v, Len(d[k]))
                            < SummedWeight(k, m, Len(d[k]))
                     /\ \E j \in 1..Len(d[k]) :
                            /\ d[k][j][schema.mode_idx] = m
                            /\ WeightOf(k, j) < SummedWeight(k, v, Len(d[k]))

\* the same without a count column: the mode reported by most lines
C17_UnweightedSeen ==
    /\ pc = "merged"
    /\ schema.count_idx = 0
    /\ \E k \in SeveralLines :
          /\ Cardinality(ModesOf(k)) > 1
          /\ SummedWeight(k, CellOf(k, schema.mode_idx), Len(d[k])) = 2

\* a line is printed for key k
Printed(k) ==
    \E i \in 1..Len(DataLines) : SubSeq(DataLines[i], 1, Len(k)) = k

\* the lines of key k whose cell in column i is a number
NumericAt(k, i) == {j \in 1..Len(d[k]) : IsNumber(d[k][j][i])}

\* x is the element at index floor(n / 2) (from 0) of the n numbers in
\* column i of the lines of key k, sorted ascending
IsMedianAt(x, k, i) ==
    LET J == NumericAt(k, i)
        below == {j \in J : DecLt(Float(d[k][j][i]), x)}
        upto == {j \in J : ~DecLt(x, Float(d[k][j][i]))}
    IN  /\ \E j \in J : Float(d[k][j][i]) = x
        /\ Cardinality(below) <= Cardinality(J) \div 2
        /\ Cardinality(J) \div 2 < Cardinality(upto)

\* the percentile cells printed for key k are the medians of the numbers
\* of their columns, or '' for a column without numbers
MedianPrinted(k) ==
    /\ Printed(k)
    /\ \A p \in 1..Len(schema.percentile_idcs) :
          LET i == schema.percentile_idcs[p]
          IN  IF NumericAt(k, i) = {} THEN CellOf(k, i) = Blank
              ELSE IsMedianAt(CellOf(k, i), k, i)

\* C18: for a key read on several lines every merged percentile cell is
\* the median of the numeric cells of its lines (the element at index
\* floor(k / 2) of the k numbers sorted ascending), and '' when no cell is
\* numeric
C18_MedianOfNumeric ==
    Finished => \A k \in SeveralLines : MedianPrinted(k)

\* what holds of C18: the same for the runs that do not end in an
\* exception
C18_MedianWhenCompleted ==
    pc = "merged" => \A k \in SeveralLines : MedianPrinted(k)

\* a key was merged from three lines with different percentile cells
C18_MedianSeen ==
    /\ pc = "merged"
    /\ \E k \in SeveralLines :
          \E i \in {schema.percentile_idcs[p] :
                        p \in 1..Len(schema.percentile_idcs)} :
              Cardinality({Float(d[k][j][i]) : j \in NumericAt(k, i)}) = 3

\* the data lines of the tables: table and line number
InputLines ==
    UNION {{<<t, l>> : l \in 2..Len(fnames[t])} : t \in 1..Len(fnames)}

\* the data lines of the tables that have key k
LinesWithKey(k) ==
    {tl \in InputLines : Pick(fnames[tl[1]][tl[2]], schema.key_idcs) = k}

\* C19: a key that is on one data line only, over all tables, is printed
\* with the statistic cells of that line exactly as they were read
C19_SingleLinePassedThrough ==
    pc = "merged" =>
        \A k \in DOMAIN d :
            \A tl \in LinesWithKey(k) :
                LinesWithKey(k) = {tl} =>
                    /\ Printed(k)
                    /\ LineOf(k)
                           = k \o Pick(fnames[tl[1]][tl[2]], schema.val_idcs)

\* a run printed a key that is on one line only, with 'nan' cells, next
\* to a key merged from several lines
C19_Witness ==
    /\ pc = "merged"
    /\ SeveralLines # {}
    /\ \E k \in DOMAIN d \ SeveralLines :
          /\ Cardinality(LinesWithKey(k)) = 1
          /\ CellOf(k, schema.min_idx) = Nan
          /\ CellOf(k, schema.mean_idx) = Nan

\* the data lines read so far
ReadSoFar ==
    {tl \in InputLines :
        tl[1] < fi.file \/ (tl[1] = fi.file /\ tl[2] < fi.line)}

\* C20: the first line of every table is a header and is never stored as
\* a data line: d holds the data lines read so far, each under its key,
\* and nothing else.  What is printed starts with the header of the first
\* table, printed once; in a completed run the lines after it are one per
\* key of d, in strictly ascending order of the key tuples
C20_HeaderOnceRowsSorted ==
    /\ pc = "merge" =>
           /\ \A k \in DOMAIN d :
                  Len(d[k]) = Cardinality({tl \in ReadSoFar :
                                              tl \in LinesWithKey(k)})
           /\ \A tl \in ReadSoFar :
                  Pick(fnames[tl[1]][tl[2]], schema.key_idcs) \in DOMAIN d
    /\ Finished =>
           /\ stdout[1] = fnames[1][1]
           /\ \A i \in 1..Len(DataLines) : DataLines[i] # fnames[1][1]
    /\ pc = "merged" =>
           /\ Len(DataLines) = Cardinality(DOMAIN d)
           /\ \A k \in DOMAIN d : Printed(k)
           /\ \A i, j \in 1..Len(DataLines) :
                  i < j => TupleLt(Pick(DataLines[i], schema.key_idcs),
                                   Pick(DataLines[j], schema.key_idcs))

\* three tables with three keys between them were merged
C20_Witness ==
    /\ pc = "merged"
    /\ Len(fnames) = 3
    /\ Len(DataLines) = 3
    /\ SeveralLines # {}
    /\ fnames[1] # fnames[2]

(***************************************************************************)
(* Properties of main's start: field resolution, backoff files, exits.     *)
(***************************************************************************)
\* the names of the header row of the input
HeaderNames ==
    IF args.infile = <<>> THEN << <<>> >> ELSE StrSplit(args.infile[1], "\t")

IsName(f) == \E i \in 1..Len(HeaderNames) : HeaderNames[i] = f

IsOffset(f) == \E n \in 0..99 : Decimal(n) = f

\* the position a specifier stands for: that of the header name it equals,
\* else the number it is
PositionOf(f) ==
    IF IsName(f)
    THEN CHOOSE i \in 1..Len(HeaderNames) :
             HeaderNames[i] = f /\ \A j \in 1..(i - 1) : HeaderNames[j] # f
    ELSE CHOOSE n \in 0..99 : Decimal(n) = f

NotFound(f) ==
    ~IsName(f) /\ (~IsOffset(f) \/ PositionOf(f) > Len(HeaderNames))

\* C21: with a header, a specifier equal to a header name resolves to the
\* 1-based position of that name, also when the specifier is a number;
\* any other specifier is read as an integer offset; FieldNotFound is
\* raised (and the run exits with status 2) when a specifier is neither
\* a header name nor an integer or when its index exceeds the header
\* width.
C21_FieldResolver ==
    (pc # "start" /\ args.header /\ args.key_given /\ ~args.tty) =>
        LET keys == args_key(args)
        IN  /\ (NotFound(args.field) \/ \E i \in 1..Len(keys) : NotFound(keys[i]))
                  => (kf.raised = "FieldNotFoundError" /\ status = "2")
            /\ (kf.raised # "IOError"
                /\ \E i \in 1..Len(args.date) : NotFound(args.date[i]))
                  => (kf.raised = "FieldNotFoundError" /\ status = "2")
            /\ kf.raised \in {"none", "IOError"} =>
                  /\ ~NotFound(args.field)
                  /\ kf.field = PositionOf(args.field)
                  /\ Len(kf.keys) = Len(keys)
                  /\ \A i \in 1..Len(keys) :
                        ~NotFound(keys[i]) /\ kf.keys[i] = PositionOf(keys[i])
            /\ kf.raised = "none" =>
                  /\ Len(kf.dates) = Len(args.date)
                  /\ \A i \in 1..Len(args.date) :
                        /\ ~NotFound(args.date[i])
                        /\ kf.dates[i] = PositionOf(args.date[i])

\* -k 1 on the header a, 1, x, T is the second column, -f 3 the third
C21_Witness ==
    /\ pc = "build"
    /\ args.header
    /\ args_key(args) = << <<"1">> >>
    /\ kf.keys = <<2>>
    /\ args.field = <<"3">>
    /\ kf.field = 3

\* -k 5 on four columns, or -k b where no column is called b, ends the run
C21_NotFoundSeen ==
    /\ pc = "exit"
    /\ args.header
    /\ status = "2"
    /\ \E i \in 1..Len(args.key) : args.key[i] \in {<<"5">>, <<"b">>}

\* C22: without a header row, a field specifier that is a positive integer
\* n is accepted and resolves to the 1-based column offset n.
C22_OffsetWithoutHeader ==
    (pc # "start" /\ ~args.header /\ args.key_given /\ ~args.tty) =>
        \A n \in 1..9 :
            args.field = Decimal(n) =>
                (kf.raised # "FieldNotFoundError" /\ kf.field = n)

\* what happens instead: the offset is refused and the run exits with 2
C22_OffsetRefusedSeen ==
    /\ pc = "exit"
    /\ ~args.header
    /\ args.field = <<"3">>
    /\ kf.raised = "FieldNotFoundError"
    /\ status = "2"

\* C23: a backoff file that is absent (None) or cannot be opened yields an
\* empty mapping for its key field and the run continues: no I/O error
\* leaves read_backoffs, and the tuple returned has one table per key
\* field, in key order.
C23_MissingBackoffIsEmpty ==
    (pc # "start" /\ args.key_given /\ ~args.tty
     /\ kf.raised # "FieldNotFoundError") =>
        LET bfs == args_backoff(args)
        IN  /\ kf.raised = "none"
            /\ Len(kf.backoffs) = Len(kf.keys)
            /\ \A i \in 1..Len(bfs) :
                  kf.backoffs[i] =
                      IF bfs[i] \in OnDisk
                      THEN ReadBackoffLines(FileNamed(bfs[i]).lines, EmptyTable)
                      ELSE EmptyTable

\* what happens instead: -k a,m with no file m ends the process with the
\* IOError
C23_IOErrorSeen ==
    /\ pc = "crashed"
    /\ args_backoff(args) = << <<"m">> >>
    /\ kf.raised = "IOError"
    /\ status = "1"
    /\ stdout = <<>>

\* files that are there, and keys without a file, do give their tables
C23_TablesSeen ==
    /\ pc = "build"
    /\ args_backoff(args) = <<NoName, <<"S">> >>
    /\ kf.backoffs = <<EmptyTable, ReadBackoffLines(SparseFile.lines, EmptyTable)>>

\* the run cannot resolve a requested field, or has no input, or was given
\* no key at all
Unresolved ==
    \/ kf.raised \in {"FieldNotFoundError", "EmptyStdinError"}
    \/ ~args.key_given
    \/ args.tty
    \/ /\ args.header
       /\ \/ NotFound(args.field)
          \/ \E i \in 1..Len(args_key(args)) : NotFound(args_key(args)[i])

\* the header row or a statistics row is among the lines printed
OutputEmitted ==
    \E i \in 1..Len(stdout) : stdout[i] = HeaderLine \/ stdout[i].line = "row"

\* C24: when a requested key or value field cannot be resolved
\* (FieldNotFound, also with no key given at all) or no input is available
\* (EmptyInput), the run ends with a non-zero exit status, and neither the
\* output header row nor any statistics row has been printed.
C24_NoPartialOutput ==
    (pc # "start" /\ Unresolved) =>
        /\ pc \in {"exit", "crashed"}
        /\ status \in {"1", "2"}
        /\ ~OutputEmitted
        /\ kf.raised = "FieldNotFoundError" => status = "2"
        /\ kf.raised = "EmptyStdinError" => status = "1"

C24_Witness ==
    /\ pc = "exit"
    /\ Unresolved
    /\ kf.raised = "FieldNotFoundError"
    /\ args.infile = Monthly
    /\ status = "2"
    /\ stdout = <<WarningLine, HelpLine>>

\* stdin is a terminal: EmptyStdinError, exit status 1
C24_EmptyInputSeen ==
    /\ pc = "exit"
    /\ args.tty
    /\ kf.raised = "EmptyStdinError"
    /\ status = "1"
    /\ stdout = <<WarningLine, HelpLine>>

\* a run that resolves its fields prints the header and its rows, status 0
C24_CompletedSeen ==
    /\ pc = "exit"
    /\ status = "0"
    /\ OutputEmitted
    /\ Len(stdout) >= 4

\* the text of a date cell after '-' and ' ' were stripped
Stripped(cell) == StrRemove(StrRemove(cell, "-"), " ")

\* YYYYMMDD: eight digits with a month and a day
IsYmd(t) ==
    /\ Len(t) = 8
    /\ AllDigits(t)
    /\ DecVal(SubSeq(t, 5, 6)) \in 1..12
    /\ DecVal(SubSeq(t, 7, 8)) \in 1..31

\* a line of four columns whose fourth is a YYYYMMDD date, in a run that
\* takes the fourth column as its date field and the others from the first
\* three
IsDaily(line) ==
    /\ kf.raised = "none"
    /\ kf.dates = <<4>>
    /\ kf.field \in 1..3
    /\ \A i \in 1..Len(kf.keys) : kf.keys[i] \in 1..3
    /\ Len(StrSplit(line, "\t")) = 4
    /\ IsYmd(Stripped(StrSplit(line, "\t")[4]))

\* the same line with its date cut to YYYYMM
AsMonthly(line) ==
    LET cells == StrSplit(line, "\t")
    IN  TabJoin([cells EXCEPT ![4] = SubSeq(Stripped(cells[4]), 1, 6)])

\* C25: a date-flagged key value YYYYMMDD (after '-' and ' ' were
\* stripped) is parsed successfully, the day being ignored, and the record
\* is credited to exactly the period labels of the value YYYYMM with the
\* same year and month.
C25_DayIgnored ==
    /\ (pc = "crashed" /\ kf.raised = "none") => ~IsDaily(args.infile[fi.line])
    /\ (pc = "build" /\ recs # <<>> /\ IsDaily(args.infile[fi.line - 1])) =>
          keysets = all_keysets(read_recs(kf, AsMonthly(args.infile[fi.line - 1])),
                                backoffs, month_lag, month_group)

\* what happens instead: strptime refuses the day and the process ends
C25_DayRefusedSeen ==
    /\ pc = "crashed"
    /\ kf.raised = "none"
    /\ args.infile = Daily
    /\ IsDaily(args.infile[fi.line])
    /\ read_recs(kf, AsMonthly(args.infile[fi.line])).ok
    /\ recs = <<>>
    /\ stdout = <<>>
    /\ status = "1"

\* the form YYYYMM, with or without '-', is read
C25_MonthSeen ==
    /\ pc = "build"
    /\ args.infile = Monthly
    /\ kf.dates = <<4>>
    /\ Len(recs) = 2
    /\ recs[1].dates = recs[2].dates
    /\ recs[2].dates = << [y |-> 2013, m |-> 1] >>

(***************************************************************************)
(* Properties of StatList's flag.                                          *)
(***************************************************************************)
\* no value of the list is smaller than one before it
Ascending(krs) ==
    \A i, j \in 1..Len(krs) : i < j => ~ValLt(krs[j], krs[i])

SameMultiset(xs, ys) ==
    /\ Len(xs) = Len(ys)
    /\ \A v \in Values(xs) \cup Values(ys) : Occ(v, xs) = Occ(v, ys)

\* what one call does to the list and its flag; the call is known by what
\* it returned
StatListStep ==
    /\ (ret'.op = "none" /\ sl' # sl) =>
          /\ ~sl'.is_sorted
          /\ Len(sl'.krs) = Len(sl.krs) + 1
          /\ SubSeq(sl'.krs, 1, Len(sl.krs)) = sl.krs
    /\ ret'.op \in {"mode", "percentiles"} =>
          /\ sl'.is_sorted
          /\ SameMultiset(sl'.krs, sl.krs)
    /\ ret'.op \in {"count", "min", "max", "mean"} => sl' = sl

C26_DirtySeen ==
    /\ ~sl.is_sorted
    /\ ~Ascending(sl.krs)
    /\ Len(sl.krs) = 4

(***************************************************************************)
(* Properties of the two phases of main.                                   *)
(***************************************************************************)
\* the data lines of the input: all but the header row
DataCount ==
    IF args.header /\ args.infile # <<>> THEN Len(args.infile) - 1
    ELSE Len(args.infile)

\* "for kr in kf.read_recs()" has ended: every line was read and inserted
BuildEnded == fi.line > Len(args.infile) /\ Len(recs) = DataCount

\* a batch was queued, taken or computed
Computing == chunks # <<>> \/ taken > 0 \/ running # {} \/ value # <<>>

\* a step of the output stage leaves the table and the rows already
\* computed as they are, and a row it adds is computed from the value
\* list of its own group alone
ComputeStep ==
    pc \in {"stats", "map", "done"} =>
        /\ d' = d
        /\ recs' = recs
        /\ \A j \in 1..Len(value) :
              value[j] # NoLine => (Len(value') = Len(value) /\ value'[j] = value[j])
        /\ \A j \in 1..Len(value') :
              (value'[j] # NoLine /\ (j > Len(value) \/ value[j] = NoLine)) =>
                  value'[j] = calc_stats(d[value'[j].key], value'[j].key)

\* C27: no group's calc_stats starts before the last record has been
\* inserted, and after the build pass has ended no group's data is
\* written: the computation of the rows only reads the value lists, so
\* that computing one group's row changes no other group's row.
C27_PhaseSeparation ==
    /\ []((Computing \/ pc \in {"stats", "map", "done"}) => BuildEnded)
    /\ [][ComputeStep]_vars

\* two workers in the middle of the rows of three records
C27_Witness ==
    /\ pc = "map"
    /\ cores = 2
    /\ Len(recs) = 3
    /\ Cardinality(running) = 2
    /\ \E j \in 1..Len(value) : value[j] # NoLine
    /\ \E j \in 1..Len(value) : value[j] = NoLine

(***************************************************************************)
(* Properties of the percentile index.                                     *)
(***************************************************************************)
IsBlank(v) == v \in {PyNone, StrVal(<<>>)}

\* the length of the run of missing or empty values a list starts with
LeadingBlanks(krs) ==
    CHOOSE b \in 0..Len(krs) :
        /\ \A i \in 1..b : IsBlank(krs[i])
        /\ b = Len(krs) \/ ~IsBlank(krs[b + 1])

\* C28: with numeric_only set, the list is sorted ascending and, with b
\* the length of its leading run of missing or empty values (b = 0 when
\* every value is missing or empty), the value returned for percentile p
\* is the element at index b + floor(p/100 * (n - b)); blanks elsewhere in
\* the order are not skipped.
C28_NumericOnlyIndex ==
    (ret.op = "percentiles" /\ ret.only_numeric /\ sl.krs # <<>>) =>
        LET n == Len(sl.krs)
            asc == sort(sl.krs)
            run == LeadingBlanks(asc)
            b == IF run = n THEN 0 ELSE run
        IN  /\ ~ret.err
            /\ sl.krs = asc
            /\ \A i \in 1..Len(ret.percentiles) :
                  ret.vals[i] =
                      asc[b + ((ret.percentiles[i] * (n - b)) \div 100) + 1]

\* a leading run of blanks was skipped, and a blank behind a number was not
C28_LeadingRunSeen ==
    /\ ret.op = "percentiles"
    /\ ret.only_numeric
    /\ sl.krs = <<StrVal(<<>>), StrVal(<<>>), StrVal(<<"x">>)>>
    /\ ret.percentiles = <<50>>
    /\ ret.vals = <<StrVal(<<"x">>)>>

C28_BlankBehindNumberSeen ==
    /\ ret.op = "percentiles"
    /\ ret.only_numeric
    /\ sl.krs = <<NumVal(1), StrVal(<<>>), StrVal(<<>>)>>
    /\ ret.percentiles = <<50>>
    /\ ret.vals = <<StrVal(<<>>)>>

\* what happens on 50 values: 58/100 * 50 is 28.999999999999996 as a
\* double, and int() makes it 28
C28_RoundedDownSeen ==
    /\ ret.op = "percentiles"
    /\ ret.only_numeric
    /\ Len(sl.krs) = 50
    /\ ret.percentiles = <<1, 58, 99>>
    /\ ret.vals = <<NumVal(1), NumVal(29), NumVal(50)>>

\* C29: after the build pass every group of the table holds at least one
\* value and, for every percentile p in 1..99 and both settings of
\* numeric_only, the index get_percentiles selects in the group's sorted
\* list of n values lies in 0..n-1: no row fails on indexing.
C29_IndexInRange ==
    pc = "stats" =>
        \A k \in DOMAIN d, on \in BOOLEAN :
            LET n == Len(d[k].krs)
                every == [p \in 1..99 |-> p]
                idcs == percentile_idcs(sort(d[k].krs), every, on)
            IN  /\ n >= 1
                /\ \A p \in 1..99 : idcs[p] \in 0..(n - 1)
                /\ ~get_percentiles(d[k], every, on).ret.err

\* a group of twelve values, and a group that starts with a run of blanks
C29_Witness ==
    /\ pc = "stats"
    /\ \E k \in DOMAIN d : Len(d[k].krs) = 12
    /\ \E k \in DOMAIN d :
          /\ Len(d[k].krs) = 4
          /\ LeadingBlanks(sort(d[k].krs)) = 2
          /\ percentile_idcs(sort(d[k].krs), <<99>>, TRUE) = <<3>>
    /\ \E k \in DOMAIN d : Len(d[k].krs) = 8

(***************************************************************************)
(* Properties of the merged mean.                                          *)
(***************************************************************************)
\* the means of the lines of key k that are numbers
MeansOf(k) == {Float(d[k][j][schema.mean_idx]) : j \in NumericMeans(k)}

\* C30: for a group present in several lines with positive counts, of
\* which at least one has a numeric mean, the merged mean is a number and
\* lies between the smallest and the largest numeric mean of its lines,
\* also when other lines of the group have '' or 'nan' as their mean.
C30_MeanWithinInputs ==
    (pc = "merged" /\ schema.count_idx # 0) =>
        \A k \in SeveralLines :
            (/\ \A j \in 1..Len(d[k]) : WeightOf(k, j) > 0
             /\ NumericMeans(k) # {}) =>
                LET m == CellOf(k, schema.mean_idx)
                IN  /\ IsNumber(m)
                    /\ \E x \in MeansOf(k) : ~DecLt(Float(m), x)
                    /\ \E x \in MeansOf(k) : ~DecLt(x, Float(m))

\* what happens instead: the lines (count 2, mean nan) and (count 2, mean
\* 8.0) merge to the mean 4.0, the nan line keeping its weight
C30_DilutedSeen ==
    /\ pc = "merged"
    /\ schema.count_idx # 0
    /\ \E k \in SeveralLines :
          /\ CellsOf(k, schema.count_idx) = <<IntCell(2), IntCell(2)>>
          /\ CellsOf(k, schema.mean_idx) = <<Nan, Whole(8)>>
          /\ CellOf(k, schema.mean_idx) = Whole(4)

\* and the lines (count 1, mean 0.0) and (count 2, mean nan) merge to ''
C30_ZeroSeen ==
    /\ pc = "merged"
    /\ schema.count_idx # 0
    /\ \E k \in SeveralLines :
          /\ CellsOf(k, schema.mean_idx) = <<Whole(0), Nan>>
          /\ CellOf(k, schema.mean_idx) = Blank

\* where every line has a numeric mean the merged mean is within them
C30_WithinSeen ==
    /\ pc = "merged"
    /\ schema.count_idx # 0
    /\ \E k \in SeveralLines :
          /\ CellsOf(k, schema.mean_idx) = <<Whole(10), Whole(2)>>
          /\ CellOf(k, schema.mean_idx) = Whole(8)

====
